---- MODULE Spec2Model ----
(***************************************************************************)
(* Cost-and-margin allocation engine of moysklad-finance.                  *)
(*                                                                         *)
(* Modelled code: MoySkladAPI.get_all_orders,                             *)
(* OrderProcessor.extract_commission_and_delivery,                         *)
(* OrderProcessor.get_buy_price_for_item, OrderProcessor.process_orders,   *)
(* the article prefetch and the statistics of run_sync,                    *)
(* GoogleSheetsUploader.upload_dataframe and the sync state of run_sync    *)
(* (src/app.py), and the caching resolver of src/final.py.                 *)
(*                                                                         *)
(* Conventions.                                                            *)
(*  - Python floats are modelled as exact rationals <<n, d>> with d > 0 in *)
(*    lowest terms; round(x, 2) is rounding to hundredths, ties to even.   *)
(*  - Strings whose content the code inspects (attribute names, attribute  *)
(*    values handed to float()) are sequences of Unicode code points, so   *)
(*    that .lower() and the `in` substring test are computed, not assumed. *)
(*  - Money in order records is in minor units (integers), as in the API.  *)
(*  - Order and line records may lack fields; the code's dict.get with a   *)
(*    default is Get.                                                      *)
(***************************************************************************)
EXTENDS Integers, Sequences, FiniteSets, TLC

(***************************************************************************)
(* Bounds of the model.                                                    *)
(***************************************************************************)
MaxAttrs == 3
MaxLines == 2
MaxOrders == 2
MaxRuns == 2
MaxItems == 3
\* page size of the order source (limit = 100 in the code), scaled to the
\* batch sizes above
PageLimit == 2

(***************************************************************************)
(* Exact rational arithmetic standing for Python float arithmetic.         *)
(***************************************************************************)
RECURSIVE GCD(_, _)
GCD(a, b) == IF b = 0 THEN a ELSE GCD(b, a % b)

Abs(x) == IF x < 0 THEN -x ELSE x

\* <<0, 0>> stands for "the division raised ZeroDivisionError"; it is
\* absorbing under the operations below.
DivError == <<0, 0>>
IsErr(x) == x[2] = 0

Norm(n, d) ==
    IF d = 0 THEN DivError
    ELSE LET s == IF d < 0 THEN -1 ELSE 1
             g == GCD(Abs(n), Abs(d))
         IN  <<(s * n) \div g, (s * d) \div g>>

R(n) == <<n, 1>>
Zero == <<0, 1>>
RNeg(x) == <<-x[1], x[2]>>
RAdd(x, y) ==
    IF IsErr(x) \/ IsErr(y) THEN DivError
    ELSE LET g == GCD(x[2], y[2])
         IN  Norm(x[1] * (y[2] \div g) + y[1] * (x[2] \div g), (x[2] \div g) * y[2])
RSub(x, y) == RAdd(x, RNeg(y))
RMul(x, y) ==
    IF IsErr(x) \/ IsErr(y) THEN DivError
    ELSE LET g1 == GCD(Abs(x[1]), y[2])
             g2 == GCD(Abs(y[1]), x[2])
         IN  Norm((x[1] \div g1) * (y[1] \div g2), (x[2] \div g2) * (y[2] \div g1))
RDiv(x, y) ==
    IF IsErr(y) \/ y[1] = 0 THEN DivError
    ELSE RMul(x, IF y[1] < 0 THEN <<-y[2], -y[1]>> ELSE <<y[2], y[1]>>)
RSign(x) == IF x[1] > 0 THEN 1 ELSE IF x[1] < 0 THEN -1 ELSE 0
RGt(x, y) == RSign(RSub(x, y)) = 1
RLe(x, y) == RSign(RSub(x, y)) <= 0
RAbs(x) == <<Abs(x[1]), x[2]>>

\* value / 100: minor units to a decimal amount
Div100(n) == Norm(n, 100)

\* round(x, 2)
Round2(x) ==
    LET m   == 100 * x[1]
        q   == m \div x[2]
        rem == m - q * x[2]
        up  == \/ 2 * rem > x[2]
               \/ (2 * rem = x[2] /\ q % 2 = 1)
    IN  IF IsErr(x) THEN DivError ELSE Norm(IF up THEN q + 1 ELSE q, 100)

RECURSIVE RSum(_)
RSum(s) == IF s = <<>> THEN Zero ELSE RAdd(Head(s), RSum(Tail(s)))

(***************************************************************************)
(* Strings as sequences of code points.                                    *)
(***************************************************************************)
\* str.lower() on the Latin and Cyrillic capitals
LowerChar(c) ==
    IF (c >= 65 /\ c <= 90) \/ (c >= 1040 /\ c <= 1071) THEN c + 32 ELSE c

Lower(s) == [i \in 1..Len(s) |-> LowerChar(s[i])]

\* kw in s
Contains(s, kw) ==
    \E i \in 1..(Len(s) - Len(kw) + 1) : SubSeq(s, i, i + Len(kw) - 1) = kw

kw_komiss == <<1082, 1086, 1084, 1080, 1089, 1089>>
kw_tovar == <<1090, 1086, 1074, 1072, 1088>>
kw_dostavk == <<1076, 1086, 1089, 1090, 1072, 1074, 1082>>
kw_summa == <<1089, 1091, 1084, 1084, 1072>>
kw_delivery == <<100, 101, 108, 105, 118, 101, 114, 121>>
kw_stoimost == <<1089, 1090, 1086, 1080, 1084, 1086, 1089, 1090, 1100>>
kw_cena == <<1094, 1077, 1085, 1072>>
kw_cost == <<99, 111, 115, 116>>
kw_percent == <<37>>

DeliveryWords == {kw_stoimost, kw_summa, kw_cena, kw_cost}

(***************************************************************************)
(* Attribute values and float().                                           *)
(***************************************************************************)
NullV == [t |-> "null", s |-> <<>>, v |-> Zero]
StrV(s) == [t |-> "str", s |-> s, v |-> Zero]
NumV(n, d) == [t |-> "num", s |-> <<>>, v |-> Norm(n, d)]

IsDigit(c) == c >= 48 /\ c <= 57
IsSpace(c) == c = 32 \/ c = 9 \/ c = 10

RECURSIVE Strip(_)
Strip(s) ==
    IF s = <<>> THEN s
    ELSE IF IsSpace(Head(s)) THEN Strip(Tail(s))
    ELSE IF IsSpace(s[Len(s)]) THEN Strip(SubSeq(s, 1, Len(s) - 1))
    ELSE s

RECURSIVE DigitsVal(_)
DigitsVal(s) ==
    IF s = <<>> THEN 0 ELSE 10 * DigitsVal(SubSeq(s, 1, Len(s) - 1)) + (s[Len(s)] - 48)

RECURSIVE Pow10(_)
Pow10(k) == IF k = 0 THEN 1 ELSE 10 * Pow10(k - 1)

\* float(str) on decimal literals: [sign] digits [. digits]; anything else
\* is a ValueError
ParseFloat(str) ==
    LET s0   == Strip(str)
        neg  == s0 # <<>> /\ Head(s0) = 45
        s    == IF s0 # <<>> /\ Head(s0) \in {43, 45} THEN Tail(s0) ELSE s0
        dots == {i \in 1..Len(s) : s[i] = 46}
        ok   == /\ \A i \in 1..Len(s) : IsDigit(s[i]) \/ s[i] = 46
                /\ Cardinality(dots) <= 1
                /\ \E i \in 1..Len(s) : IsDigit(s[i])
        dot  == IF dots = {} THEN Len(s) + 1 ELSE CHOOSE i \in dots : TRUE
        ip   == SubSeq(s, 1, dot - 1)
        fp   == SubSeq(s, dot + 1, Len(s))
        mag  == Norm(DigitsVal(ip) * Pow10(Len(fp)) + DigitsVal(fp), Pow10(Len(fp)))
    IN  IF ok THEN [ok |-> TRUE, v |-> IF neg THEN <<-mag[1], mag[2]>> ELSE mag]
        ELSE [ok |-> FALSE, v |-> Zero]

\* float(value): TypeError on None, ValueError on a non-numeric string
ToFloat(val) ==
    IF val.t = "num" THEN [ok |-> TRUE, v |-> val.v]
    ELSE IF val.t = "str" THEN ParseFloat(val.s)
    ELSE [ok |-> FALSE, v |-> Zero]

\* dict.get(key, default) on a record that may lack the key
Get(rec, key, default) == IF key \in DOMAIN rec THEN rec[key] ELSE default

(***************************************************************************)
(* OrderProcessor.extract_commission_and_delivery (src/app.py:216-260).    *)
(* The accumulator carries the three locals and whether an exception has   *)
(* escaped the loop body.                                                  *)
(***************************************************************************)
Acc0 == [commission_percent |-> Zero, commission_sum |-> Zero,
         delivery_cost |-> Zero, raised |-> FALSE]

\* variant of lines 227-233 after calculate_order_summary of src/final.py
\* (float(value or 0) outside any try): None and "" count as 0, anything
\* float() rejects raises
CoerceOrSkip_Unguarded(val) ==
    IF val.t = "null" \/ (val.t = "str" /\ val.s = <<>>)
    THEN [skip |-> FALSE, raised |-> FALSE, v |-> Zero]
    ELSE LET f == ToFloat(val)
         IN  [skip |-> FALSE, raised |-> ~f.ok, v |-> f.v]

\* lines 227-233: the None/"" test and float() under the bare except.
\* skip = the attribute is passed over (continue); raised = an exception
\* leaves the function.
CoerceOrSkip(val) ==
    IF val.t = "null" \/ (val.t = "str" /\ val.s = <<>>)
    THEN [skip |-> TRUE, raised |-> FALSE, v |-> Zero]
    ELSE LET f == ToFloat(val)
         IN  IF f.ok THEN [skip |-> FALSE, raised |-> FALSE, v |-> f.v]
             ELSE [skip |-> TRUE, raised |-> FALSE, v |-> Zero]

\* variant of lines 241-245: the percent is accumulated like the sums
ClassifyCommission_PercentAdds(acc, name, v) ==
    LET low == Lower(name)
    IN  IF Contains(low, kw_komiss) /\ Contains(low, kw_tovar)
        THEN [acc EXCEPT !.commission_sum = RAdd(@, v)]
        ELSE IF Contains(low, kw_komiss) /\ Contains(low, kw_dostavk)
        THEN [acc EXCEPT !.commission_sum = RAdd(@, v)]
        ELSE IF Contains(low, kw_komiss)
        THEN IF Contains(name, kw_percent)
             THEN [acc EXCEPT !.commission_percent = RAdd(@, v)]
             ELSE IF Contains(low, kw_summa)
             THEN [acc EXCEPT !.commission_sum = RAdd(@, v)]
             ELSE acc
        ELSE acc

\* lines 237-245: the commission chain (if / elif / elif)
ClassifyCommission(acc, name, v) ==
    LET low == Lower(name)
    IN  IF Contains(low, kw_komiss) /\ Contains(low, kw_tovar)
        THEN [acc EXCEPT !.commission_sum = RAdd(@, v)]
        ELSE IF Contains(low, kw_komiss) /\ Contains(low, kw_dostavk)
        THEN [acc EXCEPT !.commission_sum = RAdd(@, v)]
        ELSE IF Contains(low, kw_komiss)
        THEN IF Contains(name, kw_percent)
             THEN [acc EXCEPT !.commission_percent = v]
             ELSE IF Contains(low, kw_summa)
             THEN [acc EXCEPT !.commission_sum = RAdd(@, v)]
             ELSE acc
        ELSE acc

\* variant of lines 247-250: the value is taken as delivery cost whatever
\* the name
ClassifyDelivery_AnyName(acc, name, v) ==
    [acc EXCEPT !.delivery_cost = RAdd(@, v)]

\* variant of lines 247-250: names with the commission root are not left
\* out
ClassifyDelivery_NoExclusion(acc, name, v) ==
    LET low == Lower(name)
    IN  IF /\ Contains(low, kw_dostavk) \/ Contains(low, kw_delivery)
           /\ \E w \in DeliveryWords : Contains(low, w)
        THEN [acc EXCEPT !.delivery_cost = RAdd(@, v)]
        ELSE acc

\* lines 247-250: the independent delivery test
ClassifyDelivery(acc, name, v) ==
    LET low == Lower(name)
    IN  IF /\ Contains(low, kw_dostavk) \/ Contains(low, kw_delivery)
           /\ ~Contains(low, kw_komiss)
           /\ \E w \in DeliveryWords : Contains(low, w)
        THEN [acc EXCEPT !.delivery_cost = RAdd(@, v)]
        ELSE acc

\* lines 223-250: one iteration of the loop over the attributes
ExtractAttr(acc, attr) ==
    LET c == CoerceOrSkip(attr.value)
    IN  IF acc.raised THEN acc
        ELSE IF c.raised THEN [acc EXCEPT !.raised = TRUE]
        ELSE IF c.skip THEN acc
        ELSE ClassifyDelivery(ClassifyCommission(acc, attr.name, c.v), attr.name, c.v)

\* lines 252-260: the percent fallback and the returned record
ExtractFinish(acc, sum) ==
    LET order_sum == Div100(sum)
    IN  IF ~acc.raised /\ RGt(acc.commission_percent, Zero) /\ acc.commission_sum = Zero
        THEN [acc EXCEPT !.commission_sum =
                             RMul(order_sum, RDiv(acc.commission_percent, R(100)))]
        ELSE acc

RECURSIVE ExtractLoop(_, _)
ExtractLoop(acc, attrs) ==
    IF attrs = <<>> THEN acc ELSE ExtractLoop(ExtractAttr(acc, Head(attrs)), Tail(attrs))

extract_commission_and_delivery(order) ==
    ExtractFinish(ExtractLoop(Acc0, Get(order, "attributes", <<>>)), Get(order, "sum", 0))

(***************************************************************************)
(* Cost resolution of src/app.py.                                          *)
(***************************************************************************)
Src(rule, article) == [rule |-> rule, article |-> article]
NotFound == [value |-> 0, source |-> Src("not_found", "")]

\* variant of lines 271-278: the bundle branch reads the bundle's own
\* buyPrice instead of the cached base product
get_buy_price_for_item_OwnPrice(item, item_type, cache) ==
    IF item_type \in {"product", "bundle"} /\ Get(item, "buyPrice", 0) > 0
    THEN [value |-> item.buyPrice, source |-> [rule |-> "product", article |-> ""]]
    ELSE IF item_type = "variant" /\ Get(item, "buyPrice", 0) > 0
    THEN [value |-> item.buyPrice, source |-> [rule |-> "variant", article |-> ""]]
    ELSE [value |-> 0, source |-> [rule |-> "not_found", article |-> ""]]

\* OrderProcessor.get_buy_price_for_item (src/app.py:262-285).  buyPrice is
\* the 'value' of the buyPrice object, 0 when the object is absent or empty;
\* an absent article is None, which the test of line 273 rejects like "".
get_buy_price_for_item(item, item_type, cache) ==
    LET buy_price == Get(item, "buyPrice", 0)
        article   == Get(item, "article", "")
    IN  IF item_type = "product"
        THEN IF buy_price > 0
             THEN [value |-> buy_price, source |-> Src("product", "")]
             ELSE NotFound
        ELSE IF item_type = "bundle"
        THEN IF article # "" /\ article \in DOMAIN cache
             THEN IF cache[article].buyPrice > 0
                  THEN [value  |-> cache[article].buyPrice,
                        source |-> Src("base_product_by_article", article)]
                  ELSE NotFound
             ELSE NotFound
        ELSE IF item_type = "variant"
        THEN IF buy_price > 0
             THEN [value |-> buy_price, source |-> Src("variant", "")]
             ELSE NotFound
        ELSE NotFound

(***************************************************************************)
(* The catalog collaborator: what one GET of /entity/product can do.       *)
(***************************************************************************)
Reply(kind, buyPrice) == [kind |-> kind, buyPrice |-> buyPrice]
Failures == {"timeout", "http_error", "connection_error"}
Replies == {Reply("rows", 500), Reply("rows", 0), Reply("empty", 0)}
               \cup {Reply(k, 0) : k \in Failures}
\* what one GET of /entity/customerorder can do: serve the page or fail
OrderReplies == {Reply("rows", 0)} \cup {Reply(k, 0) : k \in Failures}

\* MoySkladAPI._make_request (src/app.py:161-169): every exception is
\* caught and turned into None.
make_request(reply) ==
    IF reply.kind \in Failures
    THEN [data |-> "none", buyPrice |-> 0, raised |-> FALSE]
    ELSE [data |-> reply.kind, buyPrice |-> reply.buyPrice, raised |-> FALSE]

(***************************************************************************)
(* Input data.                                                             *)
(***************************************************************************)
\* a catalog entry: href is the meta.href of a variant's base product
\* ("" when the variant carries none)
ItemH(id, type, article, buyPrice, href) ==
    [id |-> id, type |-> type, article |-> article, buyPrice |-> buyPrice, href |-> href]
Item(id, type, article, buyPrice) == ItemH(id, type, article, buyPrice, "")
Pos(quantity, price, assortment) ==
    [quantity |-> quantity, price |-> price, assortment |-> assortment]
Attr(name, value) == [name |-> name, value |-> value]
Order(name, sum, vatSum, attributes, positions) ==
    [name |-> name, sum |-> sum, vatSum |-> vatSum,
     attributes |-> attributes, positions |-> positions]

SeqsUpTo(S, n) == UNION {[1..k -> S] : k \in 0..n}

N_CommissionPct == <<67, 111, 109, 109, 105, 115, 115, 105, 111, 110, 32, 37>>
N_CommissionSum == <<67, 111, 109, 109, 105, 115, 115, 105, 111, 110, 32, 83, 117, 109>>
N_KomissiyaPct == <<1050, 1086, 1084, 1080, 1089, 1089, 1080, 1103, 32, 37>>
N_KomissiyaPctUpper == <<1050, 1054, 1052, 1048, 1057, 1057, 1048, 1071, 32, 37>>
N_SummaKomissii == <<1057, 1091, 1084, 1084, 1072, 32, 1082, 1086, 1084, 1080, 1089, 1089, 1080, 1080>>
N_DeliveryCost == <<68, 101, 108, 105, 118, 101, 114, 121, 32, 99, 111, 115, 116>>
N_StoimostDostavki == <<1057, 1090, 1086, 1080, 1084, 1086, 1089, 1090, 1100, 32, 1076, 1086, 1089, 1090, 1072, 1074, 1082, 1080>>
N_SummaKomissiiZaDostavku == <<1057, 1091, 1084, 1084, 1072, 32, 1082, 1086, 1084, 1080, 1089, 1089, 1080, 1080, 32, 1079, 1072, 32, 1076, 1086, 1089, 1090, 1072, 1074, 1082, 1091>>
N_KomissiyaZaTovar == <<1050, 1086, 1084, 1080, 1089, 1089, 1080, 1103, 32, 1079, 1072, 32, 1090, 1086, 1074, 1072, 1088>>
N_CommissionOnDeliveryCost == <<67, 111, 109, 109, 105, 115, 115, 105, 111, 110, 32, 111, 110, 32, 100, 101, 108, 105, 118, 101, 114, 121, 32, 99, 111, 115, 116>>
N_DeliveryPrice == <<68, 101, 108, 105, 118, 101, 114, 121, 32, 112, 114, 105, 99, 101>>
N_Kommentariy == <<1050, 1086, 1084, 1084, 1077, 1085, 1090, 1072, 1088, 1080, 1081>>
S_abc == <<97, 98, 99>>
S_50 == <<53, 48>>
S_12comma5 == <<49, 50, 44, 53>>

ItemP500 == Item("p1", "product", "", 500)
ItemP0 == Item("p2", "product", "", 0)
ItemB1 == Item("b1", "bundle", "X1", 0)
ItemV300 == Item("v1", "variant", "", 300)
ItemS == Item("s1", "service", "", 700)
ItemV0 == ItemH("v2", "variant", "", 0, "h1")
\* the catalog's products by href: the base product of variant v2
Catalog == [h1 |-> [buyPrice |-> 300]]

RichLines == {Pos(1, 60000, ItemP500), Pos(1, 40000, ItemB1), Pos(3, 0, ItemP500),
              Pos(1, 33333, ItemS)}
RichSums == {0, 100000}
RichAttrs == {<<Attr(N_DeliveryCost, NumV(50, 1))>>,
              <<Attr(N_KomissiyaPct, NumV(10, 1))>>,
              <<Attr(N_StoimostDostavki, StrV(S_50)), Attr(N_SummaKomissii, NumV(25, 2))>>}
RichOrders == {Order("A", s, 0, a, p) :
                  s \in RichSums, a \in RichAttrs, p \in SeqsUpTo(RichLines, MaxLines)}

SmallOrders ==
    {Order("A", 100000, 2000, <<Attr(N_DeliveryCost, NumV(50, 1))>>,
           <<Pos(1, 60000, ItemP500), Pos(1, 40000, ItemB1)>>),
     Order("", 30000, 500, <<Attr(N_Kommentariy, NumV(5, 1))>>,
           <<Pos(2, 15000, ItemV300), Pos(1, 0, ItemV0)>>),
     \* records that lack fields
     [name |-> "A"],
     [name |-> "D", sum |-> 10001,
      positions |-> <<[assortment |-> ItemP0], [quantity |-> 2, price |-> 5000]>>]}

Batches == {<<o>> : o \in RichOrders} \cup SeqsUpTo(SmallOrders, MaxOrders)

(***************************************************************************)
(* State.                                                                  *)
(***************************************************************************)
VARIABLES
    source,           \* the orders the order source holds (immutable)
    orders,           \* get_all_orders' all_orders, then run_sync's orders
    requests,         \* order-page requests sent in this run
    fetch_failed,     \* the latest order-page request of this run failed
    run,              \* number of run_sync invocations started
    phase,            \* position of run_sync / process_orders
    unique_articles,  \* bundle articles still to be looked up
    answers,          \* what _make_request returned in this run, per article
    products_cache,   \* run_sync's products_cache: article -> product
    idx,              \* index of the order being processed
    pidx,             \* index of the position being processed
    costs,            \* result of extract_commission_and_delivery
    order_cost,       \* accumulator order_cost
    last,             \* locals of the latest loop iteration (unrounded)
    orders_data,      \* emitted order rows
    positions_data,   \* emitted line rows
    summaries,        \* emitted order summaries
    stats,            \* the statistics table
    prev,             \* outputs and catalog replies of the previous run
    ex_order,         \* extractor run on its own: the order
    ex_i,             \* ... index of the next attribute
    ex_acc,           \* ... the accumulator
    ex_pc,            \* ... "idle" | "loop" | "returned" | "raised"
    f_items,          \* final.py resolver: the catalog entries of the lines
    f_i,              \* ... index of the next entry to resolve
    f_buy_price_cache, \* ... OrderProcessor.buy_price_cache: item id -> result
    f_product_cache,  \* ... OrderProcessor.product_cache: article -> product
    f_results,        \* ... what each call returned and whether it went out
    f_pc,             \* ... "idle" | "run" | "done" | "raised"
    u_sheet,          \* uploader on its own: the rows of the worksheet
    u_df,             \* ... the DataFrame handed to upload_dataframe
    u_mode,           \* ... the mode of the calls
    u_calls,          \* ... what each call met, returned and started from
    s_file,           \* sync state: the content of sync_state.json
    s_sync_state,     \* ... the sync_state dict of the run
    s_mode,           \* ... the mode of the run
    s_numbers,        \* ... the order numbers of the run's orders_data
    s_pc,             \* ... position of the run
    s_uploaded,       \* ... upload_dataframe calls that have returned
    s_runs,           \* ... runs started
    s_before          \* ... sync_state.json when the run started

pipeVars == <<source, orders, requests, fetch_failed, run, phase, unique_articles, answers,
              products_cache, idx, pidx, costs, order_cost, last, orders_data,
              positions_data, summaries, stats, prev>>
exVars == <<ex_order, ex_i, ex_acc, ex_pc>>
fVars == <<f_items, f_i, f_buy_price_cache, f_product_cache, f_results, f_pc>>
uVars == <<u_sheet, u_df, u_mode, u_calls>>
sVars == <<s_file, s_sync_state, s_mode, s_numbers, s_pc, s_uploaded, s_runs, s_before>>
sheetVars == <<uVars, sVars>>
vars == <<pipeVars, exVars, fVars, sheetVars>>

NoLast == [order |-> 0, pos |-> 0, position_sum |-> Zero, position_share |-> Zero,
           delivery_per_position |-> Zero, commission_per_position |-> Zero,
           cost_per_unit |-> Zero, product_cost |-> Zero, full_cost |-> Zero,
           profit |-> Zero, margin_percent |-> Zero]
NoPrev == [orders |-> <<>>, positions_data |-> <<>>, summaries |-> <<>>, answers |-> <<>>]
NoOrder == Order("", 0, 0, <<>>, <<>>)

(***************************************************************************)
(* OrderProcessor.process_orders (src/app.py:287-371), piece by piece.     *)
(***************************************************************************)
\* variants of line 316: the equal split taken for every order, and the
\* revenue ratio taken without the order_sum > 0 test
PositionShare_EqualAlways(position_sum, order_sum, total_positions) ==
    IF total_positions > 0 THEN Norm(1, total_positions) ELSE Zero

PositionShare_NoFallback(position_sum, order_sum, total_positions) ==
    RDiv(position_sum, order_sum)

\* line 316
PositionShare(position_sum, order_sum, total_positions) ==
    IF RGt(order_sum, Zero) THEN RDiv(position_sum, order_sum)
    ELSE IF total_positions > 0 THEN Norm(1, total_positions)
    ELSE Zero

\* variant of line 325: the ratio left as a fraction
MarginPercent_Fraction(profit, position_sum) ==
    IF RGt(position_sum, Zero) THEN RDiv(profit, position_sum) ELSE Zero

\* line 325
MarginPercent(profit, position_sum) ==
    IF RGt(position_sum, Zero) THEN RMul(RDiv(profit, position_sum), R(100)) ELSE Zero

\* line 300: order.get('positions', {}).get('rows', [])
Positions(order) == Get(order, "positions", <<>>)
\* line 306: pos.get('assortment', {})
Assortment(pos) == Get(pos, "assortment", <<>>)
\* line 307: assortment.get('meta', {}).get('type', 'product')
ItemType(pos) == Get(Assortment(pos), "type", "product")

\* lines 306-325: the locals of one iteration of the loop over the positions
PositionLocals(order, pos, cst, cache) ==
    LET info            == get_buy_price_for_item(Assortment(pos), ItemType(pos), cache)
        cost_per_unit   == IF info.value > 0 THEN Div100(info.value) ELSE Zero
        quantity        == Get(pos, "quantity", 0)
        price           == Div100(Get(pos, "price", 0))
        position_sum    == RMul(price, R(quantity))
        order_sum       == Div100(Get(order, "sum", 0))
        position_share  == PositionShare(position_sum, order_sum, Len(Positions(order)))
        delivery        == RMul(cst.delivery_cost, position_share)
        commission      == RMul(cst.commission_sum, position_share)
        product_cost    == RMul(cost_per_unit, R(quantity))
        full_cost       == RAdd(RAdd(product_cost, delivery), commission)
        profit          == RSub(position_sum, full_cost)
    IN  [position_sum |-> position_sum, position_share |-> position_share,
         delivery_per_position |-> delivery, commission_per_position |-> commission,
         cost_per_unit |-> cost_per_unit, product_cost |-> product_cost,
         full_cost |-> full_cost, profit |-> profit,
         margin_percent |-> MarginPercent(profit, position_sum)]

\* lines 327-347: the emitted row
PositionRow(order, pos, l, cache) ==
    [order_name   |-> Get(order, "name", ""),
     article      |-> Get(Assortment(pos), "article", ""),
     type         |-> ItemType(pos),
     quantity     |-> Get(pos, "quantity", 0),
     price        |-> Round2(Div100(Get(pos, "price", 0))),
     sum          |-> Round2(l.position_sum),
     cost_unit    |-> Round2(l.cost_per_unit),
     product_cost |-> Round2(l.product_cost),
     delivery     |-> Round2(l.delivery_per_position),
     commission   |-> Round2(l.commission_per_position),
     full_cost    |-> Round2(l.full_cost),
     profit       |-> Round2(l.profit),
     margin       |-> Round2(l.margin_percent),
     source       |-> get_buy_price_for_item(Assortment(pos), ItemType(pos), cache).source]

\* line 358: the product cost of the summary, summed over the emitted rows
\* that carry the order's name
RECURSIVE SumProductCost(_, _)
SumProductCost(rows, name) ==
    IF rows = <<>> THEN Zero
    ELSE RAdd(IF Head(rows).order_name = name THEN Head(rows).product_cost ELSE Zero,
              SumProductCost(Tail(rows), name))

\* variant of lines 351-367: the full cost of the summary is put together
\* from the order-level product cost, delivery and commission
OrderSummary_Recomputed(order, cst, ocost, rows) ==
    LET order_sum  == Div100(Get(order, "sum", 0))
        vat_sum    == Div100(Get(order, "vatSum", 0))
        product    == SumProductCost(rows, Get(order, "name", ""))
        full       == RAdd(RAdd(product, cst.delivery_cost), cst.commission_sum)
        net_profit == RSub(RSub(order_sum, full), vat_sum)
        margin     == IF RGt(order_sum, Zero)
                      THEN RMul(RDiv(net_profit, order_sum), R(100)) ELSE Zero
    IN  [order_name   |-> Get(order, "name", ""),
         revenue      |-> Round2(order_sum),
         product_cost |-> Round2(product),
         delivery     |-> Round2(cst.delivery_cost),
         commission   |-> Round2(cst.commission_sum),
         full_cost    |-> Round2(full),
         vat          |-> Round2(vat_sum),
         net_profit   |-> Round2(net_profit),
         margin       |-> Round2(margin),
         count        |-> Len(Positions(order)),
         available    |-> RGt(full, Zero)]

\* variant of lines 351-353: the VAT is not taken off the profit
OrderSummary_NoVat(order, cst, ocost, rows) ==
    LET order_sum  == Div100(Get(order, "sum", 0))
        vat_sum    == Div100(Get(order, "vatSum", 0))
        net_profit == RSub(order_sum, ocost)
        margin     == IF RGt(order_sum, Zero)
                      THEN RMul(RDiv(net_profit, order_sum), R(100)) ELSE Zero
    IN  [order_name   |-> Get(order, "name", ""),
         revenue      |-> Round2(order_sum),
         product_cost |-> Round2(SumProductCost(rows, Get(order, "name", ""))),
         delivery     |-> Round2(cst.delivery_cost),
         commission   |-> Round2(cst.commission_sum),
         full_cost    |-> Round2(ocost),
         vat          |-> Round2(vat_sum),
         net_profit   |-> Round2(net_profit),
         margin       |-> Round2(margin),
         count        |-> Len(Positions(order)),
         available    |-> RGt(ocost, Zero)]

\* lines 351-367
OrderSummary(order, cst, ocost, rows) ==
    LET order_sum  == Div100(Get(order, "sum", 0))
        vat_sum    == Div100(Get(order, "vatSum", 0))
        net_profit == RSub(RSub(order_sum, ocost), vat_sum)
        margin     == IF RGt(order_sum, Zero)
                      THEN RMul(RDiv(net_profit, order_sum), R(100)) ELSE Zero
    IN  [order_name   |-> Get(order, "name", ""),
         revenue      |-> Round2(order_sum),
         product_cost |-> Round2(SumProductCost(rows, Get(order, "name", ""))),
         delivery     |-> Round2(cst.delivery_cost),
         commission   |-> Round2(cst.commission_sum),
         full_cost    |-> Round2(ocost),
         vat          |-> Round2(vat_sum),
         net_profit   |-> Round2(net_profit),
         margin       |-> Round2(margin),
         count        |-> Len(Positions(order)),
         available    |-> RGt(ocost, Zero)]

\* variant of extract_order_data: the order sum is read by subscript, which
\* raises KeyError on a record without it
extract_order_data_Subscript(order) ==
    [raised |-> "sum" \notin DOMAIN order,
     row    |-> [order_name |-> Get(order, "name", ""),
                 sum        |-> Div100(Get(order, "sum", 0)),
                 vat        |-> Div100(Get(order, "vatSum", 0))]]

\* OrderProcessor.extract_order_data (src/app.py:374-399): the row of the
\* orders table, as far as it depends on the fields of the model; every
\* field is read with .get and a default, so no KeyError is raised
extract_order_data(order) ==
    [raised |-> FALSE,
     row    |-> [order_name |-> Get(order, "name", ""),
                 sum        |-> Div100(Get(order, "sum", 0)),
                 vat        |-> Div100(Get(order, "vatSum", 0))]]

\* a column of a table of rows
Column(rows, f) == [i \in 1..Len(rows) |-> rows[i][f]]

\* variant of Mean: the zero entries are left out of the count
Mean_SkipZeros(col) ==
    RDiv(RSum(col), R(Cardinality({i \in DOMAIN col : col[i] # Zero})))

\* pandas Series.mean() of a non-empty column
Mean(col) == RDiv(RSum(col), R(Len(col)))

\* run_sync, src/app.py:859-889: the statistics table (the empty DataFrame
\* is the empty sequence)
NoStats == <<>>
BatchStatistics(rows) ==
    IF rows = <<>> THEN NoStats
    ELSE [revenue      |-> Round2(RSum(Column(rows, "revenue"))),
          product_cost |-> Round2(RSum(Column(rows, "product_cost"))),
          delivery     |-> Round2(RSum(Column(rows, "delivery"))),
          commission   |-> Round2(RSum(Column(rows, "commission"))),
          full_cost    |-> Round2(RSum(Column(rows, "full_cost"))),
          vat          |-> Round2(RSum(Column(rows, "vat"))),
          net_profit   |-> Round2(RSum(Column(rows, "net_profit"))),
          margin_mean  |-> Round2(Mean(Column(rows, "margin"))),
          count        |-> Len(rows),
          mean_revenue |-> Round2(Mean(Column(rows, "revenue")))]

\* run_sync, src/app.py:811-821
UniqueArticles(os) ==
    UNION {{Get(Assortment(Positions(os[i])[j]), "article", "") :
               j \in {k \in DOMAIN Positions(os[i]) :
                         /\ ItemType(Positions(os[i])[k]) = "bundle"
                         /\ Get(Assortment(Positions(os[i])[k]), "article", "") # ""}} :
           i \in DOMAIN os}

PipeIdle ==
    /\ source = <<>>
    /\ orders = <<>>
    /\ requests = 0
    /\ fetch_failed = FALSE
    /\ run = 0
    /\ phase = "idle"
    /\ unique_articles = {}
    /\ answers = <<>>
    /\ products_cache = <<>>
    /\ idx = 0
    /\ pidx = 0
    /\ costs = Acc0
    /\ order_cost = Zero
    /\ last = NoLast
    /\ orders_data = <<>>
    /\ positions_data = <<>>
    /\ summaries = <<>>
    /\ stats = NoStats
    /\ prev = NoPrev

ExIdle ==
    /\ ex_order = NoOrder
    /\ ex_i = 0
    /\ ex_acc = Acc0
    /\ ex_pc = "idle"

NoDf == [columns |-> <<>>, rows |-> <<>>]
UIdle ==
    /\ u_sheet = <<>>
    /\ u_df = NoDf
    /\ u_mode = "replace"
    /\ u_calls = <<>>

\* ConfigManager.load_sync_state (src/app.py:135-143) without a file;
\* last_sync None is 0
NoSyncState == [last_sync |-> 0, synced_orders |-> <<>>]
SIdle ==
    /\ s_file = NoSyncState
    /\ s_sync_state = NoSyncState
    /\ s_mode = "update"
    /\ s_numbers = <<>>
    /\ s_pc = "idle"
    /\ s_uploaded = 0
    /\ s_runs = 0
    /\ s_before = NoSyncState

SheetIdle == UIdle /\ SIdle

FIdle ==
    /\ f_items = <<>>
    /\ f_i = 0
    /\ f_buy_price_cache = <<>>
    /\ f_product_cache = <<>>
    /\ f_results = <<>>
    /\ f_pc = "idle"

(***************************************************************************)
(* run_sync (src/app.py:797-889) as steps.                                 *)
(***************************************************************************)
Init ==
    /\ source \in Batches
    /\ orders = <<>>
    /\ requests = 0
    /\ fetch_failed = FALSE
    /\ run = 0
    /\ phase = "idle"
    /\ unique_articles = {}
    /\ answers = <<>>
    /\ products_cache = <<>>
    /\ idx = 0
    /\ pidx = 0
    /\ costs = Acc0
    /\ order_cost = Zero
    /\ last = NoLast
    /\ orders_data = <<>>
    /\ positions_data = <<>>
    /\ summaries = <<>>
    /\ stats = NoStats
    /\ prev = NoPrev
    /\ ExIdle
    /\ FIdle
    /\ SheetIdle

\* variant of StartRun: the row list outlives the invocation
StartRun_KeepRows ==
    /\ phase \in {"idle", "done", "no_orders"}
    /\ run < MaxRuns
    /\ run' = run + 1
    /\ prev' = [orders |-> orders, positions_data |-> positions_data,
                summaries |-> summaries, answers |-> answers]
    /\ phase' = "fetch"
    /\ orders' = <<>>
    /\ requests' = 0
    /\ fetch_failed' = FALSE
    /\ unique_articles' = {}
    /\ answers' = <<>>
    /\ products_cache' = <<>>
    /\ idx' = 0
    /\ pidx' = 0
    /\ costs' = Acc0
    /\ order_cost' = Zero
    /\ last' = NoLast
    /\ orders_data' = <<>>
    /\ positions_data' = positions_data
    /\ summaries' = <<>>
    /\ stats' = NoStats
    /\ UNCHANGED <<source, exVars, fVars, sheetVars>>

\* run_sync is invoked: get_all_orders starts with an empty list
\* (lines 172-174), and every local of the invocation before is gone; the
\* outputs of the invocation before are kept in prev for comparison.
StartRun ==
    /\ phase \in {"idle", "done", "no_orders"}
    /\ run < MaxRuns
    /\ run' = run + 1
    /\ prev' = [orders |-> orders, positions_data |-> positions_data,
                summaries |-> summaries, answers |-> answers]
    /\ phase' = "fetch"
    /\ orders' = <<>>
    /\ requests' = 0
    /\ fetch_failed' = FALSE
    /\ unique_articles' = {}
    /\ answers' = <<>>
    /\ products_cache' = <<>>
    /\ idx' = 0
    /\ pidx' = 0
    /\ costs' = Acc0
    /\ order_cost' = Zero
    /\ last' = NoLast
    /\ orders_data' = <<>>
    /\ positions_data' = <<>>
    /\ summaries' = <<>>
    /\ stats' = NoStats
    /\ UNCHANGED <<source, exVars, fVars, sheetVars>>

\* MoySkladAPI.get_all_orders, lines 176-208: one iteration of the loop
\* over the pages.  offset grows by the page size after every full page, so
\* it is PageLimit * requests.  The loop ends on a failed request and on a
\* short page; run_sync then returns at once on an empty list (lines
\* 803-805) and collects the bundle articles otherwise (lines 811-821).
FetchPage(reply) ==
    /\ phase = "fetch"
    /\ LET offset     == PageLimit * requests
           data       == make_request(reply)
           last_row   == IF offset + PageLimit < Len(source)
                         THEN offset + PageLimit ELSE Len(source)
           rows       == SubSeq(source, offset + 1, last_row)
           all_orders == IF data.data = "rows" THEN orders \o rows ELSE orders
           ended      == data.data # "rows" \/ Len(rows) < PageLimit
       IN  /\ orders' = all_orders
           /\ fetch_failed' = (data.data # "rows")
           /\ phase' = IF ~ended THEN "fetch"
                       ELSE IF all_orders = <<>> THEN "no_orders" ELSE "prefetch"
           /\ unique_articles' = IF ended THEN UniqueArticles(all_orders) ELSE {}
    /\ requests' = requests + 1
    /\ UNCHANGED <<source, run, answers, products_cache, idx, pidx, costs, order_cost,
                   last, orders_data, positions_data, summaries, stats, prev,
                   exVars, fVars, sheetVars>>

\* lines 829-838: one iteration of the loop over unique_articles (a set:
\* any order); the catalog replies whatever it replies
Prefetch(article, reply) ==
    /\ phase = "prefetch"
    /\ article \in unique_articles
    /\ LET r == make_request(reply)
       IN  /\ phase' = IF r.raised THEN "failed" ELSE "prefetch"
           /\ products_cache' = IF r.data = "rows"
                                THEN (article :> [buyPrice |-> r.buyPrice]) @@ products_cache
                                ELSE products_cache
    /\ answers' = (article :> make_request(reply)) @@ answers
    /\ unique_articles' = unique_articles \ {article}
    /\ UNCHANGED <<source, orders, requests, fetch_failed, run, idx, pidx, costs,
                   order_cost, last, orders_data, positions_data, summaries, stats,
                   prev, exVars, fVars, sheetVars>>

\* lines 844-845 and 288-292: process_orders is entered
StartProcessing ==
    /\ phase = "prefetch"
    /\ unique_articles = {}
    /\ phase' = "order"
    /\ idx' = 1
    /\ UNCHANGED <<source, orders, requests, fetch_failed, run, unique_articles, answers,
                   products_cache, pidx, costs, order_cost, last, orders_data,
                   positions_data, summaries, stats, prev, exVars, fVars, sheetVars>>

\* lines 296-303: the head of the loop over the orders
BeginOrder ==
    /\ phase = "order"
    /\ LET order_data == extract_order_data(orders[idx])
       IN  IF order_data.raised
           THEN /\ phase' = "failed"
                /\ UNCHANGED <<orders_data, costs, pidx, order_cost>>
           ELSE /\ orders_data' = Append(orders_data, order_data.row)
                /\ costs' = extract_commission_and_delivery(orders[idx])
                /\ phase' = IF costs'.raised THEN "failed" ELSE "lines"
                /\ pidx' = 1
                /\ order_cost' = Zero
    /\ UNCHANGED <<source, orders, requests, fetch_failed, run, unique_articles, answers,
                   products_cache, idx, last, positions_data, summaries, stats, prev,
                   exVars, fVars, sheetVars>>

\* variant of line 349: the row is put at the head of the list
ProcessPosition_Prepend ==
    /\ phase = "lines"
    /\ pidx <= Len(Positions(orders[idx]))
    /\ LET order == orders[idx]
           pos   == Positions(order)[pidx]
           l     == PositionLocals(order, pos, costs, products_cache)
       IN  IF IsErr(l.full_cost) \/ IsErr(l.margin_percent)
           THEN \* ZeroDivisionError leaves process_orders
                /\ phase' = "failed"
                /\ UNCHANGED <<last, order_cost, positions_data, pidx>>
           ELSE /\ last' = [order |-> idx, pos |-> pidx] @@ l
                /\ order_cost' = RAdd(order_cost, l.full_cost)
                /\ positions_data' = <<PositionRow(order, pos, l, products_cache)>>
                                       \o positions_data
                /\ pidx' = pidx + 1
                /\ phase' = phase
    /\ UNCHANGED <<source, orders, requests, fetch_failed, run, unique_articles, answers,
                   products_cache, idx, costs, orders_data, summaries, stats, prev,
                   exVars, fVars, sheetVars>>

\* lines 305-349: one iteration of the loop over the positions
ProcessPosition ==
    /\ phase = "lines"
    /\ pidx <= Len(Positions(orders[idx]))
    /\ LET order == orders[idx]
           pos   == Positions(order)[pidx]
           l     == PositionLocals(order, pos, costs, products_cache)
       IN  IF IsErr(l.full_cost) \/ IsErr(l.margin_percent)
           THEN \* ZeroDivisionError leaves process_orders
                /\ phase' = "failed"
                /\ UNCHANGED <<last, order_cost, positions_data, pidx>>
           ELSE /\ last' = [order |-> idx, pos |-> pidx] @@ l
                /\ order_cost' = RAdd(order_cost, l.full_cost)
                /\ positions_data' = Append(positions_data,
                                            PositionRow(order, pos, l, products_cache))
                /\ pidx' = pidx + 1
                /\ phase' = phase
    /\ UNCHANGED <<source, orders, requests, fetch_failed, run, unique_articles, answers,
                   products_cache, idx, costs, orders_data, summaries, stats, prev,
                   exVars, fVars, sheetVars>>

\* lines 351-371: the summary of the order; after the last order the
\* function returns
FinishOrder ==
    /\ phase = "lines"
    /\ pidx > Len(Positions(orders[idx]))
    /\ summaries' = Append(summaries,
                           OrderSummary(orders[idx], costs, order_cost, positions_data))
    /\ IF idx = Len(orders)
       THEN phase' = "processed" /\ idx' = idx
       ELSE phase' = "order" /\ idx' = idx + 1
    /\ UNCHANGED <<source, orders, requests, fetch_failed, run, unique_articles, answers,
                   products_cache, pidx, costs, order_cost, last, orders_data,
                   positions_data, stats, prev, exVars, fVars, sheetVars>>

\* lines 855-889: the statistics table is computed from the summaries
ComputeStatistics ==
    /\ phase = "processed"
    /\ stats' = BatchStatistics(summaries)
    /\ phase' = "done"
    /\ UNCHANGED <<source, orders, requests, fetch_failed, run, unique_articles, answers,
                   products_cache, idx, pidx, costs, order_cost, last, orders_data,
                   positions_data, summaries, prev, exVars, fVars, sheetVars>>

Next ==
    \/ StartRun
    \/ \E reply \in OrderReplies : FetchPage(reply)
    \/ \E article \in unique_articles, reply \in Replies : Prefetch(article, reply)
    \/ StartProcessing
    \/ BeginOrder
    \/ ProcessPosition
    \/ FinishOrder
    \/ ComputeStatistics

Spec == Init /\ [][Next]_vars

TypeOK == phase \in {"idle", "fetch", "prefetch", "order", "lines", "processed", "done",
                     "no_orders", "failed"}

(***************************************************************************)
(* Properties of the pipeline.                                             *)
(***************************************************************************)
\* an iteration of the position loop of the current order has just run
LineDone == phase = "lines" /\ last.order = idx /\ last.pos = pidx - 1
\* every position of the current order has been processed
LinesDone == phase = "lines" /\ pidx > Len(Positions(orders[idx]))
\* the rows emitted for the current order
CurRows == SubSeq(positions_data, Len(positions_data) - (pidx - 1) + 1, Len(positions_data))
\* price * quantity of a line, in minor units
LineMinor(pos) == Get(pos, "price", 0) * Get(pos, "quantity", 0)
CurRevenue == Norm(LineMinor(Positions(orders[idx])[last.pos]), 100)
RowField(rows, f) == [i \in 1..Len(rows) |-> rows[i][f]]
Within(x, y, tol) == RLe(RAbs(RSub(x, y)), tol)

\* C1: for every processed order with at least one line, the allocated
\* delivery of its lines adds up to the extracted delivery cost, and the
\* allocated commission to the extracted commission sum, each within 0.01
\* times the number of lines.
C1_AllocationReconciles ==
    (LinesDone /\ Len(Positions(orders[idx])) >= 1) =>
        LET n == Len(Positions(orders[idx]))
        IN  /\ Within(RSum(RowField(CurRows, "delivery")), costs.delivery_cost, Norm(n, 100))
            /\ Within(RSum(RowField(CurRows, "commission")), costs.commission_sum,
                      Norm(n, 100))

\* C3: when the order revenue is > 0, a line's allocated delivery is
\* deliveryCost * (line revenue / order revenue) and its allocated
\* commission is commissionSum * the same share (the emitted figures are
\* these values rounded to 2 places); revenue 1000, "Delivery cost" = 50
\* and lines of 600 and 400 give 30 and 20.
C3_ProportionalAllocation ==
    /\ (LineDone /\ Get(orders[idx], "sum", 0) > 0) =>
          LET order_sum == Norm(Get(orders[idx], "sum", 0), 100)
              row       == positions_data[Len(positions_data)]
          IN  /\ RMul(last.delivery_per_position, order_sum)
                    = RMul(costs.delivery_cost, CurRevenue)
              /\ RMul(last.commission_per_position, order_sum)
                    = RMul(costs.commission_sum, CurRevenue)
              /\ row.delivery = Round2(last.delivery_per_position)
              /\ row.commission = Round2(last.commission_per_position)
    /\ (/\ LinesDone
        /\ Get(orders[idx], "sum", 0) = 100000
        /\ Get(orders[idx], "attributes", <<>>) = <<Attr(N_DeliveryCost, NumV(50, 1))>>
        /\ Len(Positions(orders[idx])) = 2
        /\ LineMinor(Positions(orders[idx])[1]) = 60000
        /\ LineMinor(Positions(orders[idx])[2]) = 40000)
          => RowField(CurRows, "delivery") = <<R(30), R(20)>>

C3_Witness ==
    /\ LinesDone
    /\ Get(orders[idx], "sum", 0) = 100000
    /\ Len(Positions(orders[idx])) = 2
    /\ RowField(CurRows, "delivery") = <<R(30), R(20)>>

\* C4: when the order revenue is 0 and the order has N >= 1 lines, every
\* line's share is 1/N whatever its price and quantity (N equal shares,
\* adding up to 1), and no order with revenue 0 - with or without lines -
\* makes the computation fail on a division.
C4_EqualSplit ==
    /\ (LineDone /\ Get(orders[idx], "sum", 0) = 0) =>
          /\ last.position_share = Norm(1, Len(Positions(orders[idx])))
          /\ RMul(R(Len(Positions(orders[idx]))), last.position_share) = R(1)
    /\ (idx >= 1 /\ Get(orders[idx], "sum", 0) = 0) => phase # "failed"

C4_Witness ==
    /\ LineDone
    /\ Get(orders[idx], "sum", 0) = 0
    /\ Len(Positions(orders[idx])) = 2
    /\ LineMinor(Positions(orders[idx])[1])
          # LineMinor(Positions(orders[idx])[2])
    /\ last.position_share = <<1, 2>>

\* C5: a bundle line with article "X1", for which the catalog lookup by
\* article returned a product with buy price 500 minor units, gets unit
\* cost 5.00 and a cost source naming the base product by article "X1".
C5_BundleCost ==
    \A i \in 1..Len(positions_data) :
        (/\ positions_data[i].type = "bundle"
         /\ positions_data[i].article = "X1"
         /\ "X1" \in DOMAIN answers
         /\ answers["X1"] = make_request(Reply("rows", 500)))
            => /\ positions_data[i].cost_unit = R(5)
               /\ positions_data[i].source = Src("base_product_by_article", "X1")

C5_Witness ==
    /\ Len(positions_data) >= 1
    /\ positions_data[1].type = "bundle"
    /\ positions_data[1].article = "X1"
    /\ "X1" \in DOMAIN answers
    /\ answers["X1"] = make_request(Reply("rows", 500))
    /\ positions_data[1].cost_unit = R(5)

\* C6: a second run over the same batch, started with a new cache and
\* given the same catalog replies, ends with the same line rows and the
\* same order summaries as the run before.
C6_Idempotent ==
    (run >= 2 /\ phase = "done" /\ orders = prev.orders /\ answers = prev.answers) =>
        /\ positions_data = prev.positions_data
        /\ summaries = prev.summaries

C6_Witness ==
    /\ run = 2
    /\ phase = "done"
    /\ orders = prev.orders
    /\ answers = prev.answers
    /\ DOMAIN answers # {}
    /\ Len(summaries) = 2
    /\ Len(positions_data) >= 2

\* C7: for every emitted line, margin % is (revenue - fullCost) / revenue
\* * 100 when the line revenue is > 0 and 0 when it is 0, with fullCost =
\* productCost + allocated delivery + allocated commission; the emitted
\* figure is that value rounded to 2 places.
C7_LineMargin ==
    LineDone =>
        LET full == RAdd(RAdd(last.product_cost, last.delivery_per_position),
                         last.commission_per_position)
            row  == positions_data[Len(positions_data)]
        IN  /\ last.full_cost = full
            /\ CurRevenue[1] > 0 =>
                  RMul(last.margin_percent, CurRevenue)
                      = RMul(RSub(CurRevenue, full), R(100))
            /\ CurRevenue[1] = 0 => last.margin_percent = Zero
            /\ row.margin = Round2(last.margin_percent)
            /\ phase # "failed"

C7_Witness ==
    /\ LineDone
    /\ CurRevenue = Zero
    /\ RGt(last.full_cost, Zero)
    /\ last.margin_percent = Zero
    /\ Len(positions_data) = 2
    /\ positions_data[1].margin # Zero

\* the name matches none of the roots the extractor looks for
Unrecognized(attr) ==
    /\ ~Contains(Lower(attr.name), kw_komiss)
    /\ ~Contains(Lower(attr.name), kw_dostavk)
    /\ ~Contains(Lower(attr.name), kw_delivery)

\* C8: for an order none of whose attributes is recognized as commission
\* or delivery (an order without attributes included), the extractor
\* yields commissionSum = 0 and deliveryCost = 0, and the full cost of
\* every line is its product cost, unit cost * quantity, alone.
C8_NoSharedCosts ==
    (/\ phase = "lines"
     /\ \A k \in DOMAIN Get(orders[idx], "attributes", <<>>) : Unrecognized(Get(orders[idx], "attributes", <<>>)[k]))
        => /\ costs.commission_sum = Zero
           /\ costs.delivery_cost = Zero
           /\ LineDone =>
                 /\ last.full_cost = RMul(last.cost_per_unit, R(Get(Positions(orders[idx])[last.pos], "quantity", 0)))
                 /\ last.full_cost = last.product_cost
                 /\ positions_data[Len(positions_data)].full_cost
                       = positions_data[Len(positions_data)].product_cost

C8_Witness ==
    /\ LineDone
    /\ Get(orders[idx], "attributes", <<>>) = <<Attr(N_Kommentariy, NumV(5, 1))>>
    /\ costs.delivery_cost = Zero
    /\ RGt(last.full_cost, Zero)
    /\ last.full_cost = last.product_cost

(***************************************************************************)
(* Properties of the run as a whole.                                       *)
(***************************************************************************)
\* every order-page request of the run has failed: a request is followed by
\* another one only after it served a full page, so this is the case where
\* the one request sent has failed
EveryRequestFailed == requests = 1 /\ fetch_failed /\ phase # "fetch"

\* C11: when every order-page request of a run fails, the run ends as a
\* batch-level failure and not the way a normal run ends; and no further
\* order-page request goes out after a failed one.
C11_SystemicFailureSurfaced ==
    /\ EveryRequestFailed => phase = "failed"
    /\ fetch_failed => phase # "fetch"

\* number of lines of the orders before the k-th
RECURSIVE LinesBefore(_, _)
LinesBefore(os, k) ==
    IF k <= 1 THEN 0 ELSE LinesBefore(os, k - 1) + Len(Positions(os[k - 1]))
\* the rows emitted for the lines of the k-th order of the batch
RowsOf(k) == SubSeq(positions_data, LinesBefore(orders, k) + 1,
                    LinesBefore(orders, k) + Len(Positions(orders[k])))

\* C12: an order record that lacks the order sum, the VAT sum, the
\* attributes, the positions, or a line's price or quantity makes
\* process_orders raise nothing; the order still gets its summary, with
\* the missing values taken as zero or empty, and a line without price or
\* quantity still gets its row, with that figure 0.
C12_MissingFieldsTolerated ==
    /\ phase # "failed"
    /\ phase \in {"processed", "done"} => Len(summaries) = Len(orders)
    /\ \A k \in 1..Len(summaries) :
          LET o == orders[k]
              s == summaries[k]
          IN  /\ "sum" \notin DOMAIN o => s.revenue = Zero /\ s.margin = Zero
              /\ "vatSum" \notin DOMAIN o => s.vat = Zero
              /\ "attributes" \notin DOMAIN o => s.delivery = Zero /\ s.commission = Zero
              /\ "positions" \notin DOMAIN o => s.count = 0 /\ s.full_cost = Zero
              /\ "positions" \in DOMAIN o =>
                    /\ s.count = Len(o.positions)
                    /\ \A j \in 1..Len(o.positions) :
                          /\ "price" \notin DOMAIN o.positions[j] =>
                                RowsOf(k)[j].price = Zero /\ RowsOf(k)[j].sum = Zero
                          /\ "quantity" \notin DOMAIN o.positions[j] =>
                                /\ RowsOf(k)[j].quantity = 0
                                /\ RowsOf(k)[j].sum = Zero
                                /\ RowsOf(k)[j].product_cost = Zero

C12_Witness ==
    /\ phase = "done"
    /\ Len(orders) = 2
    /\ DOMAIN orders[1] = {"name"}
    /\ DOMAIN orders[2] = {"name", "sum", "positions"}
    /\ Len(summaries) = 2
    /\ summaries[1].revenue = Zero
    /\ summaries[1].count = 0
    /\ summaries[2].revenue = Norm(10001, 100)
    /\ summaries[2].vat = Zero
    /\ Len(RowsOf(2)) = 2
    /\ RowsOf(2)[1].quantity = 0
    /\ RowsOf(2)[1].sum = Zero
    /\ RowsOf(2)[2].sum = R(100)

\* the latest order has just got its summary: order_cost still holds the
\* accumulated full cost of that order
JustSummarized == phase \in {"order", "processed"} /\ Len(summaries) >= 1

\* C13: an order with zero lines, wherever it stands in the batch, raises
\* nothing and gets a summary with line count 0, total product cost 0,
\* full cost 0 and the cost-availability flag false; for every order the
\* flag is true exactly when the order's full cost is > 0.
C13_ZeroLineSummary ==
    /\ phase # "failed"
    /\ \A k \in 1..Len(summaries) :
          /\ Len(Positions(orders[k])) = 0 =>
                /\ summaries[k].count = 0
                /\ summaries[k].product_cost = Zero
                /\ summaries[k].full_cost = Zero
                /\ ~summaries[k].available
    /\ JustSummarized =>
          (summaries[Len(summaries)].available <=> RGt(order_cost, Zero))

StatTotals == {"revenue", "product_cost", "delivery", "commission", "full_cost", "vat",
               "net_profit"}

\* C14: in the statistics table computed from the order summaries, each
\* total (revenue, product cost, delivery, commission, full cost, VAT, net
\* profit) is the sum of that field over the summaries of the batch, the
\* order count is the number of summaries, and mean revenue is total
\* revenue / order count (emitted rounded to 2 places); no summaries give
\* the empty table, and computing the table raises nothing.
C14_BatchStatistics ==
    /\ phase = "done" =>
          /\ stats # NoStats
          /\ \A f \in StatTotals : stats[f] = RSum(Column(summaries, f))
          /\ stats.count = Len(summaries)
          /\ stats.count = Len(orders)
          /\ stats.mean_revenue = Round2(RDiv(stats.revenue, R(stats.count)))
          /\ Within(stats.mean_revenue, RDiv(stats.revenue, R(stats.count)), Norm(1, 200))
    /\ phase # "failed"
    /\ BatchStatistics(<<>>) = NoStats
    /\ summaries = <<>> => stats = NoStats

C14_Witness ==
    /\ phase = "done"
    /\ Len(summaries) = 2
    /\ stats.count = 2
    /\ summaries[1].revenue = R(1000)
    /\ summaries[2].revenue = Norm(10001, 100)
    /\ stats.revenue = Norm(110001, 100)
    /\ stats.mean_revenue = R(550)
    /\ RGt(stats.product_cost, Zero)
    /\ stats.vat = R(20)

\* C17: a line whose item is a variant gets the variant's own buy price
\* with source variant when that price is > 0; otherwise the buy price of
\* the base product it references, with source base-product-of-variant,
\* when that is > 0; otherwise not-found with unit cost 0.
C17_VariantResolution ==
    (LineDone /\ ItemType(Positions(orders[idx])[last.pos]) = "variant") =>
        LET item == Assortment(Positions(orders[idx])[last.pos])
            own  == Get(item, "buyPrice", 0)
            href == Get(item, "href", "")
            base == IF href \in DOMAIN Catalog THEN Catalog[href].buyPrice ELSE 0
            row  == positions_data[Len(positions_data)]
        IN  IF own > 0
            THEN row.source = Src("variant", "") /\ last.cost_per_unit = Div100(own)
            ELSE IF base > 0
            THEN /\ row.source = Src("base_product_of_variant", "")
                 /\ last.cost_per_unit = Div100(base)
            ELSE row.source = Src("not_found", "") /\ last.cost_per_unit = Zero

\* C18: the total product cost of every order summary is the sum of the
\* product costs of that order's own lines; the lines of another order of
\* the batch, one with the same or an empty name included, add nothing.
C18_OwnLinesOnly ==
    \A k \in 1..Len(summaries) :
        summaries[k].product_cost = RSum(Column(RowsOf(k), "product_cost"))

\* the unrounded full costs of the lines of the current order processed so
\* far
FullCostsSoFar ==
    [j \in 1..(pidx - 1) |->
        PositionLocals(orders[idx], Positions(orders[idx])[j], costs,
                       products_cache).full_cost]

\* C19: the full cost of the order summary is the sum of the full costs of
\* the order's lines, accumulated line by line (the emitted figure is that
\* sum rounded to 2 places), and it agrees with the sum of the emitted,
\* rounded full costs of the lines within 0.01 times the number of lines.
C19_FullCostIsSumOfLines ==
    /\ phase = "lines" => order_cost = RSum(FullCostsSoFar)
    /\ LineDone => order_cost = RAdd(RSum(SubSeq(FullCostsSoFar, 1, pidx - 2)),
                                     last.full_cost)
    /\ JustSummarized =>
          LET k == Len(summaries)
              n == Len(Positions(orders[k]))
          IN  /\ summaries[k].full_cost = Round2(order_cost)
              /\ Within(summaries[k].full_cost, RSum(Column(RowsOf(k), "full_cost")),
                        Norm(n, 100))

C19_Witness ==
    /\ JustSummarized
    /\ Len(Positions(orders[Len(summaries)])) = 2
    /\ Round2(order_cost) # order_cost
    /\ summaries[Len(summaries)].full_cost # summaries[Len(summaries)].product_cost
    /\ summaries[Len(summaries)].full_cost
          # RSum(Column(RowsOf(Len(summaries)), "full_cost"))

\* C24: for every order the summary's net profit is order revenue - order
\* full cost - VAT sum, and its margin % is net profit / revenue * 100 when
\* the revenue is > 0 and 0 when it is 0 (the emitted figures are these
\* values rounded to 2 places).
C24_NetProfit ==
    /\ JustSummarized =>
          LET k       == Len(summaries)
              revenue == Div100(Get(orders[k], "sum", 0))
              vat     == Div100(Get(orders[k], "vatSum", 0))
              net     == RSub(RSub(revenue, order_cost), vat)
          IN  /\ summaries[k].net_profit = Round2(net)
              /\ RGt(revenue, Zero) =>
                    summaries[k].margin = Round2(RDiv(RMul(net, R(100)), revenue))
              /\ revenue = Zero => summaries[k].margin = Zero
    /\ \A k \in 1..Len(summaries) :
          /\ Within(summaries[k].net_profit,
                    RSub(RSub(summaries[k].revenue, summaries[k].full_cost),
                         summaries[k].vat),
                    Norm(1, 100))
          /\ summaries[k].revenue = Zero => summaries[k].margin = Zero
    /\ phase # "failed"

C24_Witness ==
    /\ JustSummarized
    /\ summaries[Len(summaries)].revenue = R(1000)
    /\ summaries[Len(summaries)].vat = R(20)
    /\ summaries[Len(summaries)].full_cost = R(55)
    /\ summaries[Len(summaries)].net_profit = R(925)
    /\ summaries[Len(summaries)].margin = Norm(925, 10)

\* the row is the one emitted for the j-th line of the order
RowOfLine(row, order, j) ==
    LET pos == Positions(order)[j]
    IN  /\ row.order_name = Get(order, "name", "")
        /\ row.quantity = Get(pos, "quantity", 0)
        /\ row.price = Div100(Get(pos, "price", 0))
        /\ row.article = Get(Assortment(pos), "article", "")
        /\ row.type = ItemType(pos)

\* C25: process_orders emits exactly one line row per line item and
\* exactly one order summary per order of the batch; the summaries stand in
\* batch order, and the rows of an order stand together, in the order in
\* which the lines stand in that order.
C25_OneRowPerLine ==
    /\ phase = "lines" =>
          /\ Len(summaries) = idx - 1
          /\ Len(positions_data) = LinesBefore(orders, idx) + pidx - 1
          /\ \A j \in 1..(pidx - 1) :
                RowOfLine(positions_data[LinesBefore(orders, idx) + j], orders[idx], j)
    /\ phase = "order" =>
          /\ Len(summaries) = idx - 1
          /\ Len(positions_data) = LinesBefore(orders, idx)
    /\ phase \in {"processed", "done"} =>
          /\ Len(summaries) = Len(orders)
          /\ Len(positions_data) = LinesBefore(orders, Len(orders) + 1)
    /\ \A k \in 1..Len(summaries) :
          /\ summaries[k].order_name = Get(orders[k], "name", "")
          /\ summaries[k].revenue = Div100(Get(orders[k], "sum", 0))
          /\ summaries[k].count = Len(Positions(orders[k]))
          /\ \A j \in 1..Len(Positions(orders[k])) : RowOfLine(RowsOf(k)[j], orders[k], j)
    /\ phase # "failed"

C25_Witness ==
    /\ phase = "done"
    /\ Len(orders) = 2
    /\ Len(summaries) = 2
    /\ summaries[1].order_name = "A"
    /\ summaries[2].order_name = ""
    /\ Len(positions_data) = 4
    /\ positions_data[1].type = "product"
    /\ positions_data[2].type = "bundle"
    /\ positions_data[3].type = "variant"
    /\ positions_data[3].quantity = 2
    /\ positions_data[4].quantity = 1

(***************************************************************************)
(* The extractor on its own, attribute by attribute.                       *)
(***************************************************************************)
ExAttrs ==
    {Attr(N_CommissionPct, NumV(10, 1)),
     Attr(N_CommissionSum, NumV(50, 1)),
     Attr(N_KomissiyaPct, NumV(10, 1)),
     Attr(N_KomissiyaPctUpper, NumV(5, 1)),
     Attr(N_KomissiyaPct, NullV),
     Attr(N_SummaKomissii, NumV(50, 1)),
     Attr(N_SummaKomissii, NumV(0, 1)),
     Attr(N_SummaKomissii, StrV(S_abc)),
     Attr(N_DeliveryCost, NumV(50, 1)),
     Attr(N_DeliveryCost, StrV(<<>>)),
     Attr(N_DeliveryPrice, NumV(50, 1)),
     Attr(N_StoimostDostavki, StrV(S_50)),
     Attr(N_StoimostDostavki, StrV(S_12comma5)),
     Attr(N_SummaKomissiiZaDostavku, NumV(7, 1)),
     Attr(N_CommissionOnDeliveryCost, NumV(7, 1)),
     Attr(N_KomissiyaZaTovar, NumV(3, 1)),
     Attr(N_Kommentariy, NumV(5, 1))}
ExSums == {0, 100000}

InitExtract ==
    /\ ex_order \in {Order("A", s, 0, a, <<>>) :
                        s \in ExSums, a \in SeqsUpTo(ExAttrs, MaxAttrs)}
    /\ ex_i = 1
    /\ ex_acc = Acc0
    /\ ex_pc = "loop"
    /\ PipeIdle
    /\ FIdle
    /\ SheetIdle

\* src/app.py:223-250, one iteration
ExtractStep ==
    /\ ex_pc = "loop"
    /\ ex_i <= Len(ex_order.attributes)
    /\ ex_acc' = ExtractAttr(ex_acc, ex_order.attributes[ex_i])
    /\ ex_pc' = IF ex_acc'.raised THEN "raised" ELSE "loop"
    /\ ex_i' = ex_i + 1
    /\ UNCHANGED <<ex_order, pipeVars, fVars, sheetVars>>

\* src/app.py:252-260
ExtractReturn ==
    /\ ex_pc = "loop"
    /\ ex_i > Len(ex_order.attributes)
    /\ ex_acc' = ExtractFinish(ex_acc, ex_order.sum)
    /\ ex_pc' = "returned"
    /\ UNCHANGED <<ex_order, ex_i, pipeVars, fVars, sheetVars>>

NextExtract == ExtractStep \/ ExtractReturn

SpecExtract == InitExtract /\ [][NextExtract]_vars

\* C2: with revenue 1000, an order whose only commission attribute is
\* "Commission %" = 10 gets commissionSum = 100; with "Commission Sum" = 50
\* present as well it gets the explicit sum, 50.
C2_CommissionPrecedence ==
    (ex_pc = "returned" /\ ex_order.sum = 100000) =>
        /\ ex_order.attributes = <<Attr(N_CommissionPct, NumV(10, 1))>>
              => ex_acc.commission_sum = R(100)
        /\ ex_order.attributes \in
                 {<<Attr(N_CommissionPct, NumV(10, 1)), Attr(N_CommissionSum, NumV(50, 1))>>,
                  <<Attr(N_CommissionSum, NumV(50, 1)), Attr(N_CommissionPct, NumV(10, 1))>>}
              => ex_acc.commission_sum = R(50)

\* values that are null, empty or not numbers
UnparsableValues == {NullV, StrV(<<>>), StrV(S_abc), StrV(S_12comma5)}
Without(seq, i) == SubSeq(seq, 1, i - 1) \o SubSeq(seq, i + 1, Len(seq))
Outputs(acc) == <<acc.commission_percent, acc.commission_sum, acc.delivery_cost>>

\* C10: extract_commission_and_delivery never raises; an attribute whose
\* value is null, empty or not coercible to a number changes none of the
\* three outputs: the result is that of the list without the attribute.
C10_UnparsableIgnored ==
    /\ ex_pc # "raised"
    /\ ex_pc = "returned" =>
          \A i \in DOMAIN ex_order.attributes :
              ex_order.attributes[i].value \in UnparsableValues =>
                  Outputs(ex_acc) =
                      Outputs(extract_commission_and_delivery(
                                  [ex_order EXCEPT !.attributes = Without(@, i)]))

C10_Witness ==
    /\ ex_pc = "returned"
    /\ ex_order.sum = 100000
    /\ ex_order.attributes = <<Attr(N_KomissiyaPct, NumV(10, 1)), Attr(N_KomissiyaPct, NullV),
                               Attr(N_StoimostDostavki, StrV(S_12comma5))>>
    /\ Outputs(ex_acc) = <<R(10), R(100), Zero>>

\* the attribute's value is a number and its name puts it into
\* commission_sum
ClassifiedAsSum(attr) ==
    /\ ~CoerceOrSkip(attr.value).skip
    /\ ClassifyCommission(Acc0, attr.name, R(1)).commission_sum = R(1)
\* the values of the attributes classified into commission_sum, added up
RECURSIVE ExplicitSum(_)
ExplicitSum(attrs) ==
    IF attrs = <<>> THEN Zero
    ELSE RAdd(IF ClassifiedAsSum(Head(attrs)) THEN CoerceOrSkip(Head(attrs).value).v
              ELSE Zero,
              ExplicitSum(Tail(attrs)))

\* C15: when at least one attribute of the list was classified into
\* commissionSum, whatever its value, the returned commissionSum is the
\* sum of the classified values and the percent is not applied.
C15_PercentNotAppliedWithExplicitSum ==
    (/\ ex_pc = "returned"
     /\ \E i \in DOMAIN ex_order.attributes : ClassifiedAsSum(ex_order.attributes[i]))
        => ex_acc.commission_sum = ExplicitSum(ex_order.attributes)

\* "commission", the English word of the specification
en_commission == <<99, 111, 109, 109, 105, 115, 115, 105, 111, 110>>
\* the name contains both a commission word and a delivery word
NamesCommissionAndDelivery(name) ==
    /\ Contains(Lower(name), en_commission) \/ Contains(Lower(name), kw_komiss)
    /\ Contains(Lower(name), kw_delivery) \/ Contains(Lower(name), kw_dostavk)

\* C20: an attribute with a numeric value whose name contains both
\* "commission" and "delivery", in any case, is added to commissionSum and
\* leaves deliveryCost as it is, also when the name contains a delivery
\* keyword such as "cost".
C20_CommissionOnDeliveryPooled ==
    [][(/\ ex_pc = "loop"
        /\ ex_i <= Len(ex_order.attributes)
        /\ NamesCommissionAndDelivery(ex_order.attributes[ex_i].name)
        /\ ~CoerceOrSkip(ex_order.attributes[ex_i].value).skip)
         => /\ ex_acc'.commission_sum
                  = RAdd(ex_acc.commission_sum, CoerceOrSkip(ex_order.attributes[ex_i].value).v)
            /\ ex_acc'.delivery_cost = ex_acc.delivery_cost]_vars

\* the words of the specification's delivery rule
ru_dostavka == <<1076, 1086, 1089, 1090, 1072, 1074, 1082, 1072>>
en_price == <<112, 114, 105, 99, 101>>
en_amount == <<97, 109, 111, 117, 110, 116>>
SpecDeliveryWords == {kw_cost, en_price, en_amount, kw_stoimost, kw_summa, kw_cena}
\* the name is one the specification's delivery rule takes
NamesDeliveryCost(name) ==
    /\ Contains(Lower(name), kw_delivery) \/ Contains(Lower(name), ru_dostavka)
    /\ ~Contains(Lower(name), en_commission)
    /\ \E w \in SpecDeliveryWords : Contains(Lower(name), w)

\* C21: an attribute with a numeric value is added to deliveryCost exactly
\* when its name, in any case, contains "delivery" or the Russian word for
\* it, does not contain "commission", and contains one of the keywords
\* cost, price, amount or their Russian counterparts; the values of several
\* such attributes add up.
C21_DeliveryKeywords ==
    [][(/\ ex_pc = "loop"
        /\ ex_i <= Len(ex_order.attributes)
        /\ ~CoerceOrSkip(ex_order.attributes[ex_i].value).skip)
         => ex_acc'.delivery_cost =
               IF NamesDeliveryCost(ex_order.attributes[ex_i].name)
               THEN RAdd(ex_acc.delivery_cost, CoerceOrSkip(ex_order.attributes[ex_i].value).v)
               ELSE ex_acc.delivery_cost]_vars

\* the attribute's value is a number and its name is that of a general
\* commission given in percent
ClassifiedAsPercent(attr) ==
    /\ ~CoerceOrSkip(attr.value).skip
    /\ Contains(Lower(attr.name), kw_komiss)
    /\ ~Contains(Lower(attr.name), kw_tovar)
    /\ ~Contains(Lower(attr.name), kw_dostavk)
    /\ Contains(attr.name, kw_percent)
\* C22: of several attributes classified as commission percent the
\* returned commissionPercent is the value of the last one in sequence
\* order, not their sum: every such attribute replaces the percent, any
\* other attribute and the return leave it as it is; the values classified
\* as commission sum add up.
C22_LastPercentWins ==
    [][/\ (ex_pc = "loop" /\ ex_i <= Len(ex_order.attributes)) =>
             LET attr == ex_order.attributes[ex_i]
                 v    == CoerceOrSkip(attr.value).v
             IN  /\ ex_acc'.commission_percent =
                       IF ClassifiedAsPercent(attr) THEN v ELSE ex_acc.commission_percent
                 /\ ex_acc'.commission_sum =
                       IF ClassifiedAsSum(attr) THEN RAdd(ex_acc.commission_sum, v)
                       ELSE ex_acc.commission_sum
       /\ (ex_pc = "loop" /\ ex_i > Len(ex_order.attributes)) =>
             ex_acc'.commission_percent = ex_acc.commission_percent]_vars

C22_Witness ==
    /\ ex_pc = "returned"
    /\ ex_order.sum = 100000
    /\ ex_order.attributes = <<Attr(N_KomissiyaPct, NumV(10, 1)),
                               Attr(N_KomissiyaZaTovar, NumV(3, 1)),
                               Attr(N_KomissiyaPctUpper, NumV(5, 1))>>
    /\ ex_acc.commission_percent = R(5)
    /\ ex_acc.commission_sum = R(3)

\* C30: every attribute contributes to at most one of the three outputs:
\* no attribute, whatever its name and value, is both added to
\* commissionSum (or set as commissionPercent) and added to deliveryCost;
\* one iteration of the loop changes at most one of the outputs.
C30_AtMostOneOutput ==
    [][(ex_pc = "loop" /\ ex_i <= Len(ex_order.attributes)) =>
          LET percent  == ex_acc'.commission_percent # ex_acc.commission_percent
              sum      == ex_acc'.commission_sum # ex_acc.commission_sum
              delivery == ex_acc'.delivery_cost # ex_acc.delivery_cost
          IN  /\ ~(delivery /\ (sum \/ percent))
              /\ ~(sum /\ percent)]_vars

C30_Witness ==
    /\ ex_pc = "returned"
    /\ ex_order.sum = 100000
    /\ ex_order.attributes = <<Attr(N_SummaKomissiiZaDostavku, NumV(7, 1)),
                               Attr(N_StoimostDostavki, StrV(S_50)),
                               Attr(N_KomissiyaPct, NumV(10, 1))>>
    /\ Outputs(ex_acc) = <<R(10), R(7), R(50)>>

(***************************************************************************)
(* The caching resolver of src/final.py.                                   *)
(***************************************************************************)
\* variant of MoySkladAPI._make_request: only the Timeout clause is there
make_request_final_TimeoutOnly(reply) ==
    IF reply.kind = "timeout"
    THEN [data |-> "none", buyPrice |-> 0, raised |-> FALSE]
    ELSE IF reply.kind \in Failures
    THEN [data |-> "none", buyPrice |-> 0, raised |-> TRUE]
    ELSE [data |-> reply.kind, buyPrice |-> reply.buyPrice, raised |-> FALSE]

\* MoySkladAPI._make_request (src/final.py:21-33): Timeout is caught by the
\* first clause, HTTPError (raise_for_status) and ConnectionError by the
\* RequestException clause; both return None
make_request_final(reply) ==
    IF reply.kind = "timeout"
    THEN [data |-> "none", buyPrice |-> 0, raised |-> FALSE]
    ELSE IF reply.kind \in {"http_error", "connection_error"}
    THEN [data |-> "none", buyPrice |-> 0, raised |-> FALSE]
    ELSE [data |-> reply.kind, buyPrice |-> reply.buyPrice, raised |-> FALSE]

NoProduct == [found |-> FALSE, buyPrice |-> 0, raised |-> FALSE]

\* MoySkladAPI.get_product_by_article (src/final.py:101-112)
get_product_by_article(reply) ==
    LET d == make_request_final(reply)
    IN  IF d.raised THEN [NoProduct EXCEPT !.raised = TRUE]
        ELSE IF d.data = "rows" THEN [found |-> TRUE, buyPrice |-> d.buyPrice, raised |-> FALSE]
        ELSE NoProduct

\* MoySkladAPI.get_item_by_href (src/final.py:85-99): no request without an
\* href; Timeout and every other exception return None; an empty JSON
\* object is falsy for the caller
get_item_by_href(href, reply) ==
    IF href = "" THEN NoProduct
    ELSE IF reply.kind \in Failures THEN NoProduct
    ELSE IF reply.kind = "rows" THEN [found |-> TRUE, buyPrice |-> reply.buyPrice, raised |-> FALSE]
    ELSE NoProduct

\* variant of src/final.py:164-205: an entry of any other kind is treated
\* like a product
get_buy_price_for_item_cached_AnyKind(item, bpc, pcache, reply) ==
    LET hit(r)     == [result |-> r, bpc |-> bpc, pcache |-> pcache,
                       called |-> FALSE, raised |-> FALSE]
        ret(r, pcache2, called) ==
                      [result |-> r, bpc |-> (item.id :> r) @@ bpc, pcache |-> pcache2,
                       called |-> called, raised |-> FALSE]
        raise(called) == [result |-> NotFound, bpc |-> bpc, pcache |-> pcache,
                          called |-> called, raised |-> TRUE]
    IN  IF item.id \in DOMAIN bpc THEN hit(bpc[item.id])
        ELSE IF item.type = "product"
        THEN IF item.buyPrice > 0
             THEN ret([value |-> item.buyPrice, source |-> Src("product", "")], pcache, FALSE)
             ELSE ret(NotFound, pcache, FALSE)
        ELSE IF item.type = "bundle"
        THEN IF item.article = "" THEN ret(NotFound, pcache, FALSE)
             ELSE LET cached  == item.article \in DOMAIN pcache
                      base    == IF cached
                                 THEN [found |-> TRUE, buyPrice |-> pcache[item.article].buyPrice,
                                       raised |-> FALSE]
                                 ELSE get_product_by_article(reply)
                      pcache2 == IF ~cached /\ base.found
                                 THEN (item.article :> [buyPrice |-> base.buyPrice]) @@ pcache
                                 ELSE pcache
                  IN  IF base.raised THEN raise(TRUE)
                      ELSE IF base.found /\ base.buyPrice > 0
                      THEN ret([value  |-> base.buyPrice,
                                source |-> Src("base_product_by_article", item.article)],
                               pcache2, ~cached)
                      ELSE ret(NotFound, pcache2, ~cached)
        ELSE IF item.type = "variant"
        THEN IF item.buyPrice > 0
             THEN ret([value |-> item.buyPrice, source |-> Src("variant", "")], pcache, FALSE)
             ELSE IF item.href = "" THEN ret(NotFound, pcache, FALSE)
             ELSE LET base == get_item_by_href(item.href, reply)
                  IN  IF base.raised THEN raise(TRUE)
                      ELSE IF base.found /\ base.buyPrice > 0
                      THEN ret([value  |-> base.buyPrice,
                                source |-> Src("base_product_of_variant", "")],
                               pcache, TRUE)
                      ELSE ret(NotFound, pcache, TRUE)
        ELSE IF item.buyPrice > 0
        THEN ret([value |-> item.buyPrice, source |-> Src("product", "")], pcache, FALSE)
        ELSE ret(NotFound, pcache, FALSE)

\* variant of src/final.py:155-157: the cache is written but never asked
get_buy_price_for_item_cached_NoHit(item, bpc, pcache, reply) ==
    LET hit(r)     == [result |-> r, bpc |-> bpc, pcache |-> pcache,
                       called |-> FALSE, raised |-> FALSE]
        ret(r, pcache2, called) ==
                      [result |-> r, bpc |-> (item.id :> r) @@ bpc, pcache |-> pcache2,
                       called |-> called, raised |-> FALSE]
        raise(called) == [result |-> NotFound, bpc |-> bpc, pcache |-> pcache,
                          called |-> called, raised |-> TRUE]
    IN  IF item.id \in {} THEN hit(bpc[item.id])
        ELSE IF item.type = "product"
        THEN IF item.buyPrice > 0
             THEN ret([value |-> item.buyPrice, source |-> Src("product", "")], pcache, FALSE)
             ELSE ret(NotFound, pcache, FALSE)
        ELSE IF item.type = "bundle"
        THEN IF item.article = "" THEN ret(NotFound, pcache, FALSE)
             ELSE LET cached  == item.article \in DOMAIN pcache
                      base    == IF cached
                                 THEN [found |-> TRUE, buyPrice |-> pcache[item.article].buyPrice,
                                       raised |-> FALSE]
                                 ELSE get_product_by_article(reply)
                      pcache2 == IF ~cached /\ base.found
                                 THEN (item.article :> [buyPrice |-> base.buyPrice]) @@ pcache
                                 ELSE pcache
                  IN  IF base.raised THEN raise(TRUE)
                      ELSE IF base.found /\ base.buyPrice > 0
                      THEN ret([value  |-> base.buyPrice,
                                source |-> Src("base_product_by_article", item.article)],
                               pcache2, ~cached)
                      ELSE ret(NotFound, pcache2, ~cached)
        ELSE IF item.type = "variant"
        THEN IF item.buyPrice > 0
             THEN ret([value |-> item.buyPrice, source |-> Src("variant", "")], pcache, FALSE)
             ELSE IF item.href = "" THEN ret(NotFound, pcache, FALSE)
             ELSE LET base == get_item_by_href(item.href, reply)
                  IN  IF base.raised THEN raise(TRUE)
                      ELSE IF base.found /\ base.buyPrice > 0
                      THEN ret([value  |-> base.buyPrice,
                                source |-> Src("base_product_of_variant", "")],
                               pcache, TRUE)
                      ELSE ret(NotFound, pcache, TRUE)
        ELSE ret(NotFound, pcache, FALSE)

\* OrderProcessor.get_buy_price_for_item (src/final.py:143-214).  reply is
\* what the catalog answers if the call goes out.  The result carries the
\* returned record, the two caches as the call leaves them, and whether a
\* request was sent.
get_buy_price_for_item_cached(item, bpc, pcache, reply) ==
    LET hit(r)     == [result |-> r, bpc |-> bpc, pcache |-> pcache,
                       called |-> FALSE, raised |-> FALSE]
        ret(r, pcache2, called) ==
                      [result |-> r, bpc |-> (item.id :> r) @@ bpc, pcache |-> pcache2,
                       called |-> called, raised |-> FALSE]
        raise(called) == [result |-> NotFound, bpc |-> bpc, pcache |-> pcache,
                          called |-> called, raised |-> TRUE]
    IN  IF item.id \in DOMAIN bpc THEN hit(bpc[item.id])
        ELSE IF item.type = "product"
        THEN IF item.buyPrice > 0
             THEN ret([value |-> item.buyPrice, source |-> Src("product", "")], pcache, FALSE)
             ELSE ret(NotFound, pcache, FALSE)
        ELSE IF item.type = "bundle"
        THEN IF item.article = "" THEN ret(NotFound, pcache, FALSE)
             ELSE LET cached  == item.article \in DOMAIN pcache
                      base    == IF cached
                                 THEN [found |-> TRUE, buyPrice |-> pcache[item.article].buyPrice,
                                       raised |-> FALSE]
                                 ELSE get_product_by_article(reply)
                      pcache2 == IF ~cached /\ base.found
                                 THEN (item.article :> [buyPrice |-> base.buyPrice]) @@ pcache
                                 ELSE pcache
                  IN  IF base.raised THEN raise(TRUE)
                      ELSE IF base.found /\ base.buyPrice > 0
                      THEN ret([value  |-> base.buyPrice,
                                source |-> Src("base_product_by_article", item.article)],
                               pcache2, ~cached)
                      ELSE ret(NotFound, pcache2, ~cached)
        ELSE IF item.type = "variant"
        THEN IF item.buyPrice > 0
             THEN ret([value |-> item.buyPrice, source |-> Src("variant", "")], pcache, FALSE)
             ELSE IF item.href = "" THEN ret(NotFound, pcache, FALSE)
             ELSE LET base == get_item_by_href(item.href, reply)
                  IN  IF base.raised THEN raise(TRUE)
                      ELSE IF base.found /\ base.buyPrice > 0
                      THEN ret([value  |-> base.buyPrice,
                                source |-> Src("base_product_of_variant", "")],
                               pcache, TRUE)
                      ELSE ret(NotFound, pcache, TRUE)
        ELSE ret(NotFound, pcache, FALSE)

ItemB2 == Item("b2", "bundle", "X1", 0)
ItemV0NoBase == ItemH("v3", "variant", "", 0, "")
FItems == {ItemP500, ItemP0, ItemB1, ItemB2, ItemV300, ItemV0, ItemV0NoBase, ItemS}

InitFinal ==
    /\ f_items \in SeqsUpTo(FItems, MaxItems)
    /\ f_i = 1
    /\ f_buy_price_cache = <<>>
    /\ f_product_cache = <<>>
    /\ f_results = <<>>
    /\ f_pc = "run"
    /\ PipeIdle
    /\ ExIdle
    /\ SheetIdle

\* src/final.py:331-332 inside the loop of extract_positions_data: the cost
\* of the next line's catalog entry is resolved
ResolveNext(reply) ==
    /\ f_pc = "run"
    /\ f_i <= Len(f_items)
    /\ LET r == get_buy_price_for_item_cached(f_items[f_i], f_buy_price_cache,
                                              f_product_cache, reply)
       IN  IF r.raised
           THEN /\ f_pc' = "raised"
                /\ UNCHANGED <<f_i, f_buy_price_cache, f_product_cache, f_results>>
           ELSE /\ f_pc' = "run"
                /\ f_i' = f_i + 1
                /\ f_buy_price_cache' = r.bpc
                /\ f_product_cache' = r.pcache
                /\ f_results' = Append(f_results,
                       [value         |-> r.result.value,
                        source        |-> r.result.source,
                        cost_per_unit |-> IF r.result.value > 0
                                          THEN Div100(r.result.value) ELSE Zero,
                        called        |-> r.called,
                        reply         |-> IF r.called THEN reply ELSE Reply("none", 0)])
    /\ UNCHANGED <<f_items, pipeVars, exVars, sheetVars>>

\* the loop over the lines ends
ResolveDone ==
    /\ f_pc = "run"
    /\ f_i > Len(f_items)
    /\ f_pc' = "done"
    /\ UNCHANGED <<f_items, f_i, f_buy_price_cache, f_product_cache, f_results,
                   pipeVars, exVars, sheetVars>>

NextFinal == (\E reply \in Replies : ResolveNext(reply)) \/ ResolveDone

SpecFinal == InitFinal /\ [][NextFinal]_vars

LookupsByArticle(a) ==
    {k \in DOMAIN f_results :
        /\ f_items[k].type = "bundle"
        /\ f_items[k].article = a
        /\ f_results[k].called}

\* C16: within one run the catalog lookup by article goes out at most once
\* per article, whether it found a product or not: once a bundle with
\* article A has been resolved, resolving another bundle with article A
\* sends no request.
C16_LookupOncePerArticle ==
    \A k \in DOMAIN f_results :
        f_items[k].type = "bundle" => Cardinality(LookupsByArticle(f_items[k].article)) <= 1

\* the rules a cost source can name
SourceRules == {"product", "base_product_by_article", "variant", "base_product_of_variant",
                "not_found"}

\* C23: for a catalog entry of any kind the returned cost source names the
\* rule that fired; the source is not-found exactly when the returned unit
\* cost is 0; a product's unit cost is its own buy price whenever that is
\* > 0; an entry that is neither product, bundle nor variant resolves to
\* not-found with cost 0.
C23_SourceRecordsRule ==
    \A k \in DOMAIN f_results :
        LET item == f_items[k]
            r    == f_results[k]
        IN  /\ r.source.rule \in SourceRules
            /\ r.source = Src("not_found", "") <=> r.cost_per_unit = Zero
            /\ r.source.rule = "not_found" <=> r.value = 0
            /\ r.source.rule = "product" => item.type = "product"
            /\ r.source.rule = "base_product_by_article" =>
                  item.type = "bundle" /\ r.source.article = item.article
            /\ r.source.rule \in {"variant", "base_product_of_variant"} =>
                  item.type = "variant"
            /\ r.source.rule = "variant" => r.value = item.buyPrice
            /\ r.source.rule = "base_product_of_variant" =>
                  item.buyPrice <= 0 /\ item.href # ""
            /\ item.type = "product" =>
                  IF item.buyPrice > 0
                  THEN /\ r.source = Src("product", "")
                       /\ r.value = item.buyPrice
                       /\ r.cost_per_unit = Div100(item.buyPrice)
                  ELSE r.source = Src("not_found", "")
            /\ item.type \notin {"product", "bundle", "variant"} =>
                  r.source = Src("not_found", "") /\ r.value = 0 /\ ~r.called

C23_Witness ==
    /\ f_pc = "done"
    /\ f_items = <<ItemS, ItemP500, ItemP0>>
    /\ f_results[1].source = Src("not_found", "")
    /\ f_results[1].cost_per_unit = Zero
    /\ f_results[2].source = Src("product", "")
    /\ f_results[2].cost_per_unit = R(5)
    /\ f_results[3].source = Src("not_found", "")

\* what a call returned
Returned(k) == [value |-> f_results[k].value, source |-> f_results[k].source]
\* the first call for the catalog entry of the k-th line
FirstCall(k) == CHOOSE j \in 1..k : f_items[j].id = f_items[k].id
                                       /\ \A i \in 1..(j - 1) : f_items[i].id # f_items[k].id

\* C27: once buy_price_cache holds an entry for an item id the entry stays
\* what the first call for that id returned, and every later call for the
\* id returns that value and source without a request to the catalog, also
\* when the entry is not-found after a failed lookup.
C27_CacheEntryStable ==
    /\ \A k \in DOMAIN f_results :
          /\ f_items[k].id \in DOMAIN f_buy_price_cache
          /\ f_buy_price_cache[f_items[k].id] = Returned(FirstCall(k))
          /\ FirstCall(k) # k =>
                /\ Returned(k) = Returned(FirstCall(k))
                /\ ~f_results[k].called
    /\ DOMAIN f_buy_price_cache = {f_items[k].id : k \in DOMAIN f_results}

C27_Witness ==
    /\ f_pc = "done"
    /\ f_items = <<ItemB1, ItemV0, ItemB1>>
    /\ f_results[1].called
    /\ f_results[1].reply.kind = "timeout"
    /\ f_results[1].source = Src("not_found", "")
    /\ f_results[2].called
    /\ ~f_results[3].called
    /\ f_results[3].source = Src("not_found", "")
    /\ f_buy_price_cache["b1"] = NotFound

(***************************************************************************)
(* GoogleSheetsUploader of src/app.py on one worksheet.  A worksheet is    *)
(* the sequence of its rows, a row the sequence of its cells; the cells    *)
(* are strings, as worksheet.get_all_values() returns them.                *)
(***************************************************************************)
MaxRows == 2
MaxCalls == 2

\* the column "Номер заказа" and a column of figures
OrderNumberColumn == "Nomer zakaza"
Df(columns, rows) == [columns |-> columns, rows |-> rows]
Range(seq) == {seq[i] : i \in DOMAIN seq}

\* what the Sheets API does during one upload_dataframe call: it works; the
\* read of line 451 fails; the read inside get_existing_orders fails; the
\* write of line 494 fails
ApiOutcomes == {"ok", "read_error", "existing_error", "write_error"}

\* GoogleSheetsUploader.get_existing_orders (src/app.py:420-431): the first
\* cells of the rows after the first row, the empty ones left out; every
\* exception gives the empty set
get_existing_orders(sheet, api) ==
    IF api = "existing_error" THEN {}
    ELSE IF Len(sheet) > 1
    THEN {sheet[i][1] : i \in {k \in 2..Len(sheet) : sheet[k][1] # ""}}
    ELSE {}

\* GoogleSheetsUploader.upload_dataframe (src/app.py:434-497), df being the
\* table after the selection of the fields and the cleaning
upload_dataframe(sheet, df, mode, api) ==
    LET existing_data == sheet
        is_empty      == Len(existing_data) = 0
        \* lines 479-497: data is put together and written from start_row on
        write(cleared, start_row, include_header, rows) ==
            LET data == (IF include_header THEN <<df.columns>> ELSE <<>>) \o rows
            IN  IF data # <<>> /\ api = "write_error"
                THEN [sheet |-> cleared, ret |-> 0, raised |-> TRUE]
                ELSE [sheet  |-> SubSeq(cleared, 1, start_row - 1) \o data,
                      ret    |-> Len(rows),
                      raised |-> FALSE]
    IN  IF api = "read_error"
        THEN [sheet |-> sheet, ret |-> 0, raised |-> TRUE]
        ELSE IF mode = "replace"
        THEN write(<<>>, 1, TRUE, df.rows)
        ELSE IF mode = "append"
        THEN write(sheet, Len(existing_data) + 1, is_empty, df.rows)
        ELSE IF OrderNumberColumn \in Range(df.columns)
        THEN LET existing_orders == get_existing_orders(sheet, api)
                 column          == CHOOSE c \in DOMAIN df.columns :
                                        df.columns[c] = OrderNumberColumn
                 IsNew(row)      == row[column] \notin existing_orders
                 new_df          == SelectSeq(df.rows, IsNew)
             IN  IF new_df = <<>>
                 THEN [sheet |-> sheet, ret |-> 0, raised |-> FALSE]
                 ELSE write(sheet, Len(existing_data) + 1, FALSE, new_df)
        ELSE write(<<>>, 1, TRUE, df.rows)

UpColumns == <<OrderNumberColumn, "v">>
UpRows == {<<"A", "1">>, <<"A", "2">>, <<"B", "3">>, <<"", "4">>}
\* the tables keyed by order number, and the statistics table
UpDfs == {Df(UpColumns, rows) : rows \in SeqsUpTo(UpRows, MaxRows)}
             \cup {Df(<<"Metrika", "Znachenie">>, <<<<"n", "1">>>>)}
\* the worksheet before the first call: new, with the header only, with the
\* header and rows
UpSheets == {<<>>, <<UpColumns>>, <<UpColumns, <<"A", "1">>>>,
             <<UpColumns, <<"B", "3">>, <<"C", "5">>>>}
UpModes == {"replace", "append", "update"}

InitUpload ==
    /\ u_sheet \in UpSheets
    /\ u_df \in UpDfs
    /\ u_mode \in UpModes
    /\ u_calls = <<>>
    /\ PipeIdle
    /\ ExIdle
    /\ FIdle
    /\ SIdle

\* one call of upload_dataframe with the table and the mode of the run
Upload(api) ==
    /\ Len(u_calls) < MaxCalls
    /\ LET r == upload_dataframe(u_sheet, u_df, u_mode, api)
       IN  /\ u_sheet' = r.sheet
           /\ u_calls' = Append(u_calls, [api |-> api, ret |-> r.ret, raised |-> r.raised,
                                          before |-> u_sheet])
    /\ UNCHANGED <<u_df, u_mode, pipeVars, exVars, fVars, sVars>>

NextUpload == \E api \in ApiOutcomes : Upload(api)

SpecUpload == InitUpload /\ [][NextUpload]_vars

\* the worksheet as the k-th call left it
SheetAfter(k) == IF k = Len(u_calls) THEN u_sheet ELSE u_calls[k + 1].before

\* C26: two calls of upload_dataframe in update mode with the same table
\* keyed by order number, from any worksheet state, the empty worksheet
\* included: the second call writes no rows and returns 0, so that the
\* worksheet is as the first call left it.
C26_UpdateIdempotent ==
    \A k \in 2..Len(u_calls) :
        (/\ u_mode = "update"
         /\ OrderNumberColumn \in Range(u_df.columns)
         /\ ~u_calls[k - 1].raised
         /\ ~u_calls[k].raised)
            => /\ u_calls[k].ret = 0
               /\ SheetAfter(k) = u_calls[k].before

(***************************************************************************)
(* The sync state of run_sync (src/app.py:762-1017).  Fetching and         *)
(* processing are taken by their outcome: the order numbers of the rows of *)
(* orders_data, or an exception; an upload by whether it returns.          *)
(***************************************************************************)
SyncModes == {"update", "replace", "append"}
\* order.get("name", "") of the orders of a batch
OrderNumbers == {"A", "D", ""}
NumberBatches == SeqsUpTo(OrderNumbers, MaxOrders)
\* the worksheets run_sync uploads to (lines 901-926)
Worksheets == 4

\* list(set(xs)): the distinct elements, in an order that is the
\* interpreter's
ListsOfSet(S) == {f \in [1..Cardinality(S) -> S] : \A i, j \in DOMAIN f : f[i] = f[j] => i = j}

\* lines 938-946: synced_orders after the branch on the mode
ExtendSynced(synced_orders, new_order_numbers, mode) ==
    LET NotYet(o) == o \notin Range(synced_orders)
    IN  IF mode = "update" THEN synced_orders \o SelectSeq(new_order_numbers, NotYet)
        ELSE IF mode = "replace" THEN new_order_numbers
        ELSE synced_orders \o new_order_numbers

InitSync ==
    /\ SIdle
    /\ PipeIdle
    /\ ExIdle
    /\ FIdle
    /\ UIdle

\* main (line 525) loads sync_state.json and run_sync is called with a mode
\* (lines 561, 706)
SyncStart(mode) ==
    /\ s_pc \in {"idle", "saved", "failed", "no_orders"}
    /\ s_runs < MaxRuns
    /\ s_runs' = s_runs + 1
    /\ s_sync_state' = s_file
    /\ s_before' = s_file
    /\ s_mode' = mode
    /\ s_numbers' = <<>>
    /\ s_uploaded' = 0
    /\ s_pc' = "fetch"
    /\ UNCHANGED <<s_file, pipeVars, exVars, fVars, uVars>>

\* lines 797-805: get_all_orders returns the orders it got, none after a
\* failed request; run_sync returns at once when there are none
SyncFetch(numbers) ==
    /\ s_pc = "fetch"
    /\ s_numbers' = numbers
    /\ s_pc' = IF numbers = <<>> THEN "no_orders" ELSE "process"
    /\ UNCHANGED <<s_file, s_sync_state, s_mode, s_uploaded, s_runs, s_before,
                   pipeVars, exVars, fVars, uVars>>

\* lines 811-889: prefetch, process_orders and the tables; an exception
\* (a null where a number is expected, say) goes to the handler of lines
\* 1013-1017
SyncProcess(ok) ==
    /\ s_pc = "process"
    /\ s_pc' = IF ok THEN "upload" ELSE "failed"
    /\ UNCHANGED <<s_file, s_sync_state, s_mode, s_numbers, s_uploaded, s_runs, s_before,
                   pipeVars, exVars, fVars, uVars>>

\* variant of SyncUpload: the state is written as soon as the table of the
\* orders is up
SyncUpload_SaveEarly(ok) ==
    /\ s_pc = "upload"
    /\ IF ok
       THEN /\ s_uploaded' = s_uploaded + 1
            /\ s_pc' = IF s_uploaded' = Worksheets THEN "format" ELSE "upload"
            /\ s_file' = IF s_uploaded = 0
                         THEN [last_sync |-> s_runs, synced_orders |-> s_numbers]
                         ELSE s_file
       ELSE /\ s_pc' = "failed"
            /\ UNCHANGED <<s_uploaded, s_file>>
    /\ UNCHANGED <<s_sync_state, s_mode, s_numbers, s_runs, s_before,
                   pipeVars, exVars, fVars, uVars>>

\* lines 901-926: the next of the four upload_dataframe calls returns or
\* raises
SyncUpload(ok) ==
    /\ s_pc = "upload"
    /\ IF ok
       THEN /\ s_uploaded' = s_uploaded + 1
            /\ s_pc' = IF s_uploaded' = Worksheets THEN "format" ELSE "upload"
            /\ s_file' = s_file
       ELSE /\ s_pc' = "failed"
            /\ UNCHANGED <<s_uploaded, s_file>>
    /\ UNCHANGED <<s_sync_state, s_mode, s_numbers, s_runs, s_before,
                   pipeVars, exVars, fVars, uVars>>

\* lines 933-935: format_worksheet keeps its exceptions to itself (lines
\* 499-510)
SyncFormat ==
    /\ s_pc = "format"
    /\ s_pc' = "state"
    /\ UNCHANGED <<s_file, s_sync_state, s_mode, s_numbers, s_uploaded, s_runs, s_before,
                   pipeVars, exVars, fVars, uVars>>

\* variant of SyncSaveState: the list is stored as the branch left it
SyncSaveState_NoSet ==
    /\ s_pc = "state"
    /\ s_sync_state' = [last_sync     |-> s_runs,
                        synced_orders |-> ExtendSynced(s_sync_state.synced_orders,
                                                       s_numbers, s_mode)]
    /\ s_file' = s_sync_state'
    /\ s_pc' = "saved"
    /\ UNCHANGED <<s_mode, s_numbers, s_uploaded, s_runs, s_before,
                   pipeVars, exVars, fVars, uVars>>

\* lines 937-951: the sync state is updated and written; datetime.now() is
\* the number of the run
SyncSaveState ==
    /\ s_pc = "state"
    /\ \E synced \in ListsOfSet(Range(ExtendSynced(s_sync_state.synced_orders,
                                                   s_numbers, s_mode))) :
           s_sync_state' = [last_sync |-> s_runs, synced_orders |-> synced]
    /\ s_file' = s_sync_state'
    /\ s_pc' = "saved"
    /\ UNCHANGED <<s_mode, s_numbers, s_uploaded, s_runs, s_before,
                   pipeVars, exVars, fVars, uVars>>

NextSync ==
    \/ \E mode \in SyncModes : SyncStart(mode)
    \/ \E numbers \in NumberBatches : SyncFetch(numbers)
    \/ \E ok \in BOOLEAN : SyncProcess(ok)
    \/ \E ok \in BOOLEAN : SyncUpload(ok)
    \/ SyncFormat
    \/ SyncSaveState

SpecSync == InitSync /\ [][NextSync]_vars

\* C28: the sync state is saved only after all four uploads have returned;
\* when fetching, processing or an upload raises, or no orders were
\* fetched, sync_state.json is as it was when the run started.
C28_StateSavedAfterUploads ==
    /\ s_pc \in {"fetch", "process", "upload", "format", "state", "failed", "no_orders"} =>
          s_file = s_before
    /\ s_pc \in {"failed", "no_orders"} => s_uploaded < Worksheets
    /\ s_file # s_before => s_pc = "saved" /\ s_uploaded = Worksheets
    /\ s_pc = "saved" => s_file.last_sync = s_runs /\ s_uploaded = Worksheets

C28_Witness ==
    /\ s_pc = "failed"
    /\ s_runs = 2
    /\ s_uploaded = 3
    /\ s_numbers = <<"A", "D">>
    /\ s_file = s_before
    /\ s_file.last_sync = 1
    /\ s_file.synced_orders = <<"D">>

NoDuplicates(seq) == \A i, j \in DOMAIN seq : seq[i] = seq[j] => i = j

\* C29: after every completed run synced_orders holds no order number
\* twice; a run in replace mode leaves exactly the order numbers of its
\* batch, a run in update or append mode the numbers recorded before
\* together with those of its batch.
C29_SyncedOrdersSet ==
    /\ NoDuplicates(s_file.synced_orders)
    /\ s_pc = "saved" =>
          /\ s_mode = "replace" => Range(s_file.synced_orders) = Range(s_numbers)
          /\ s_mode \in {"update", "append"} =>
                Range(s_file.synced_orders)
                    = Range(s_before.synced_orders) \cup Range(s_numbers)
          /\ Len(s_file.synced_orders) = Cardinality(Range(s_file.synced_orders))

C29_Witness ==
    /\ s_pc = "saved"
    /\ s_runs = 2
    /\ s_mode = "append"
    /\ s_before.synced_orders = <<"A", "D">>
    /\ s_numbers = <<"D", "D">>
    /\ s_file.synced_orders = <<"D", "A">>

====
